---- MODULE Spec2Model ----
(***************************************************************************)
(* Model of metcli's terminal inline image delivery: protocol detection    *)
(* (internal/inline), the Kitty and iTerm encoders, the grid compositor's  *)
(* geometry, the two render drivers (renderGrid, renderInline), the        *)
(* profile commands that call them, and FetchUserMedia's page loop.        *)
(*                                                                         *)
(* Strings are sequences of one-character strings, so that TrimSpace,      *)
(* ToLower and Contains are computed and not assumed.                      *)
(***************************************************************************)
EXTENDS Integers, Sequences, FiniteSets, TLC

VARIABLES
    env,        \* the process environment: variable name -> value
    dpc,        \* detectInline: position in the rule list
    reads,      \* detectInline: the variables read through getenv, in order
    detected,   \* detectInline: the returned Protocol ("unset" before return)
    kin,        \* SendKittyPNG: the arguments (out, id, png, cols, rows)
    kpc,        \* SendKittyPNG / sendKittyData: position
    encoded,    \* sendKittyData: the part of the base64 text not yet sent
    first,      \* sendKittyData: no chunk has been written yet
    kout,       \* the writes made on the bufio.Writer, in order
    cin,        \* buildGridPNG: the arguments (images, cols, thumbPx, paddingPx)
    cpc,        \* buildGridPNG: position
    cres,       \* buildGridPNG: the returned (png, width, height, err)
    driver,     \* which render driver runs: renderGrid or renderInline
    items,      \* the item list handed to the driver (the items' URLs)
    opts,       \* renderGrid: the gridOptions argument
    iargs,      \* renderInline: the cols and rows arguments
    tty,        \* what term.GetSize answers for standard output
    rpc,        \* the driver's position
    protocol,   \* the driver's local protocol
    plan,       \* renderGrid: the resolved gridCols, thumbPx, paddingPx, thumbCols, pageSize
    start,      \* renderGrid: the page loop variable (0-based)
    idx,        \* the item loop variable (0-based)
    images,     \* renderGrid: the images decoded so far in the current page
    page,       \* renderGrid: the composite of the current page and its cell size
    nextID,     \* the Kitty image id counter
    writer,     \* the bufio.Writer's buffered output
    stdout,     \* what has reached standard output
    stderr,     \* the diagnostics written to standard error
    attempts,   \* every DownloadImage call made, with its outcome
    pageLog,    \* renderGrid: the pageItems slice of every loop iteration
    fin,        \* a geometry function or SendItermInline: the function called and its arguments
    fpc,        \* the same: position (call, return)
    fres,       \* the same: the value returned, or the text written
    fetch,      \* FetchUserMedia: its locals (max, pageSize, userID, out, seen, maxID, pageCount)
    feedPage    \* FetchUserMedia: the last request made and what fetchUserFeedPage gave for it

detectVars == <<env, dpc, reads, detected>>

kittyVars == <<kin, kpc, encoded, first, kout>>

composeVars == <<cin, cpc, cres>>

renderVars == <<driver, items, opts, iargs, tty, rpc, protocol, plan, start, idx, images,
                page, nextID, writer, stdout, stderr, attempts, pageLog>>

funcVars == <<fin, fpc, fres>>

fetchVars == <<fetch, feedPage>>

vars == <<env, dpc, reads, detected, kin, kpc, encoded, first, kout, cin, cpc, cres,
          driver, items, opts, iargs, tty, rpc, protocol, plan, start, idx, images,
          page, nextID, writer, stdout, stderr, attempts, pageLog, fin, fpc, fres,
          fetch, feedPage>>

-----------------------------------------------------------------------------
(* Strings *)

Min(a, b) == IF a < b THEN a ELSE b

Max(a, b) == IF a > b THEN a ELSE b

\* unicode.IsSpace on the Latin-1 range, as strings.TrimSpace uses it
IsSpace(c) == c \in {" ", "\t", "\n", "\r"}

\* unicode.ToLower of one character
LowerChar(c) ==
    CASE c = "A" -> "a" [] c = "B" -> "b" [] c = "C" -> "c" [] c = "D" -> "d"
      [] c = "E" -> "e" [] c = "F" -> "f" [] c = "G" -> "g" [] c = "H" -> "h"
      [] c = "I" -> "i" [] c = "J" -> "j" [] c = "K" -> "k" [] c = "L" -> "l"
      [] c = "M" -> "m" [] c = "N" -> "n" [] c = "O" -> "o" [] c = "P" -> "p"
      [] c = "Q" -> "q" [] c = "R" -> "r" [] c = "S" -> "s" [] c = "T" -> "t"
      [] c = "U" -> "u" [] c = "V" -> "v" [] c = "W" -> "w" [] c = "X" -> "x"
      [] c = "Y" -> "y" [] c = "Z" -> "z" [] OTHER -> c

\* strings.ToLower
ToLower(s) == [i \in 1..Len(s) |-> LowerChar(s[i])]

\* strings.TrimSpace: drop the leading and the trailing white space
TrimSpace(s) ==
    LET keep == {i \in 1..Len(s) : ~IsSpace(s[i])}
    IN  IF keep = {} THEN <<>>
        ELSE LET lo == CHOOSE i \in keep : \A j \in keep : i <= j
                 hi == CHOOSE i \in keep : \A j \in keep : i >= j
             IN  SubSeq(s, lo, hi)

\* strings.Contains
Contains(s, sub) ==
    \E i \in 1..(Len(s) - Len(sub) + 1) : SubSeq(s, i, i + Len(sub) - 1) = sub

-----------------------------------------------------------------------------
(* Protocol detection: internal/inline/inline.go *)

ProtocolNone == "none"

ProtocolKitty == "kitty"

ProtocolIterm == "iterm"

Protocols == {ProtocolNone, ProtocolKitty, ProtocolIterm}

EnvNames == {"METCLI_INLINE", "KITTY_WINDOW_ID", "TERM_PROGRAM", "ITERM_SESSION_ID", "TERM"}

\* the string literals of detectInline
L_kitty == <<"k","i","t","t","y">>

L_iterm == <<"i","t","e","r","m">>

L_iterm2 == <<"i","t","e","r","m","2">>

L_none == <<"n","o","n","e">>

L_off == <<"o","f","f">>

L_false == <<"f","a","l","s","e">>

L_0 == <<"0">>

L_auto == <<"a","u","t","o">>

L_ghostty == <<"g","h","o","s","t","t","y">>

L_apple_terminal == <<"a","p","p","l","e","_","t","e","r","m","i","n","a","l">>

L_xterm_kitty == <<"x","t","e","r","m","-","k","i","t","t","y">>

overrideSwitch_unknownIsAuto(getenv) ==
    LET override == ToLower(TrimSpace(getenv["METCLI_INLINE"]))
    IN  CASE override = L_kitty -> ProtocolKitty
          [] override \in {L_iterm, L_iterm2} -> ProtocolIterm
          [] override \in {L_none, L_off, L_false, L_0} -> ProtocolNone
          [] OTHER -> "fallthrough"

\* the switch over the override: the protocol it returns, or "fallthrough"
overrideSwitch(getenv) ==
    LET override == ToLower(TrimSpace(getenv["METCLI_INLINE"]))
    IN  CASE override = L_kitty -> ProtocolKitty
          [] override \in {L_iterm, L_iterm2} -> ProtocolIterm
          [] override \in {L_none, L_off, L_false, L_0} -> ProtocolNone
          [] override \in {<<>>, L_auto} -> "fallthrough"
          [] OTHER -> ProtocolNone

kittyWindowCheck_noTrim(getenv) == getenv["KITTY_WINDOW_ID"] # <<>>

kittyWindowCheck(getenv) == TrimSpace(getenv["KITTY_WINDOW_ID"]) # <<>>

termProgramGhostty(getenv) == Contains(ToLower(getenv["TERM_PROGRAM"]), L_ghostty)

termProgramIterm(getenv) == Contains(ToLower(getenv["TERM_PROGRAM"]), L_iterm)

itermSessionCheck(getenv) == TrimSpace(getenv["ITERM_SESSION_ID"]) # <<>>

termProgramApple_caseSensitive(getenv) == Contains(getenv["TERM_PROGRAM"], L_apple_terminal)

termProgramApple(getenv) == Contains(ToLower(getenv["TERM_PROGRAM"]), L_apple_terminal)

termCheck(getenv) ==
    LET term == ToLower(getenv["TERM"])
    IN  Contains(term, L_xterm_kitty) \/ Contains(term, L_ghostty)

\* detectInline as one function of the environment
detectInline(getenv) ==
    IF overrideSwitch(getenv) # "fallthrough" THEN overrideSwitch(getenv)
    ELSE IF kittyWindowCheck(getenv) THEN ProtocolKitty
    ELSE IF termProgramGhostty(getenv) THEN ProtocolKitty
    ELSE IF termProgramIterm(getenv) \/ itermSessionCheck(getenv) THEN ProtocolIterm
    ELSE IF termProgramApple(getenv) THEN ProtocolNone
    ELSE IF termCheck(getenv) THEN ProtocolKitty
    ELSE ProtocolNone

-----------------------------------------------------------------------------
(* Environment values the detector is run on *)

V_empty == <<>>

V_blank == <<" ">>

OverrideValues ==
    { V_empty, V_blank, L_auto, <<" ","A","u","t","o","\t">>,
      L_kitty, <<"K","I","T","T","Y">>, L_iterm, L_iterm2, <<" ","i","T","e","r","m","2"," ">>,
      L_none, L_off, L_false, L_0, <<"O","f","f">>,
      <<"1">>, <<"y","e","s">>, <<"k","i","t","t","y","2">> }

WindowIdValues == { V_empty, V_blank, <<"1">>, <<" ","7"," ">> }

TermProgramValues ==
    { V_empty, V_blank, L_ghostty, <<"G","h","o","s","t","t","y">>,
      <<"i","T","e","r","m",".","a","p","p">>,
      <<"A","p","p","l","e","_","T","e","r","m","i","n","a","l">>,
      <<"v","s","c","o","d","e">>,
      <<"i","t","e","r","m","-","g","h","o","s","t","t","y">>,
      <<"a","p","p","l","e","_","t","e","r","m","i","n","a","l","-","i","t","e","r","m">> }

SessionIdValues == { V_empty, V_blank, <<"w","0","t","0","p","0">> }

TermValues ==
    { V_empty, L_xterm_kitty, <<"X","T","E","R","M","-","K","I","T","T","Y">>,
      <<"x","t","e","r","m","-","g","h","o","s","t","t","y">>,
      <<"x","t","e","r","m","-","2","5","6","c","o","l","o","r">>,
      <<"k","i","t","t","y">> }

Envs ==
    { [n \in EnvNames |->
          CASE n = "METCLI_INLINE" -> o
            [] n = "KITTY_WINDOW_ID" -> w
            [] n = "TERM_PROGRAM" -> p
            [] n = "ITERM_SESSION_ID" -> s
            [] n = "TERM" -> t] :
      o \in OverrideValues, w \in WindowIdValues, p \in TermProgramValues,
      s \in SessionIdValues, t \in TermValues }

-----------------------------------------------------------------------------
(* detectInline, rule by rule, recording every getenv call *)

DetectIdle ==
    /\ env = [n \in EnvNames |-> <<>>]
    /\ dpc = "idle"
    /\ reads = <<>>
    /\ detected = "unset"

KittyIdle ==
    /\ kin = [Out |-> FALSE, ID |-> 0, Data |-> <<>>, Cols |-> 0, Rows |-> 0]
    /\ kpc = "idle"
    /\ encoded = <<>>
    /\ first = FALSE
    /\ kout = <<>>

NoPNG == [width |-> 0, height |-> 0, cells |-> <<>>]

ComposeIdle ==
    /\ cin = [images |-> <<>>, cols |-> 0, thumbPx |-> 0, paddingPx |-> 0]
    /\ cpc = "idle"
    /\ cres = [png |-> NoPNG, width |-> 0, height |-> 0, err |-> FALSE]

NoOpts == [GridCols |-> 0, ThumbCols |-> 0, ThumbPx |-> 0, PaddingPx |-> 0, PageSize |-> 0]

NoPlan == [gridCols |-> 0, thumbPx |-> 0, paddingPx |-> 0, thumbCols |-> 0, pageSize |-> 0]

NoPage == [pageCols |-> 0, png |-> NoPNG, width |-> 0, height |-> 0, colsCells |-> 0, rowsCells |-> 0]

NoTty == [err |-> TRUE, width |-> 0, rows |-> 0]

\* the locals of a driver before its first statement
RenderLocalsInit ==
    /\ protocol = "unset"
    /\ plan = NoPlan
    /\ start = 0
    /\ idx = 0
    /\ images = <<>>
    /\ page = NoPage
    /\ nextID = 0
    /\ writer = <<>>
    /\ stdout = <<>>
    /\ stderr = <<>>
    /\ attempts = <<>>
    /\ pageLog = <<>>

FuncIdle ==
    /\ fin = [fn |-> "none"]
    /\ fpc = "idle"
    /\ fres = [ok |-> FALSE]

\* FetchUserMedia before its first statement
NoFeedPage == [called |-> FALSE]

FetchIdle ==
    /\ fetch = [max |-> 0, pageSize |-> 0, userID |-> <<>>, out |-> <<>>, seen |-> {},
                maxID |-> "", pageCount |-> 0]
    /\ feedPage = NoFeedPage

RenderIdle ==
    /\ driver = "idle"
    /\ items = <<>>
    /\ opts = NoOpts
    /\ iargs = [cols |-> 0, rows |-> 0]
    /\ tty = NoTty
    /\ rpc = "idle"
    /\ RenderLocalsInit

InitDetect ==
    /\ env \in Envs
    /\ dpc = "override"
    /\ reads = <<>>
    /\ detected = "unset"
    /\ KittyIdle
    /\ ComposeIdle
    /\ RenderIdle
    /\ FuncIdle
    /\ FetchIdle

\* inline.go 32-43: the override switch
CheckOverride ==
    /\ dpc = "override"
    /\ reads' = Append(reads, "METCLI_INLINE")
    /\ IF overrideSwitch(env) # "fallthrough"
       THEN /\ detected' = overrideSwitch(env)
            /\ dpc' = "return"
       ELSE /\ dpc' = "kitty_window_id"
            /\ UNCHANGED detected
    /\ UNCHANGED <<env, kittyVars, composeVars, renderVars, funcVars, fetchVars>>

\* inline.go 45-47
CheckKittyWindow ==
    /\ dpc = "kitty_window_id"
    /\ reads' = Append(reads, "KITTY_WINDOW_ID")
    /\ IF kittyWindowCheck(env)
       THEN /\ detected' = ProtocolKitty
            /\ dpc' = "return"
       ELSE /\ dpc' = "term_program"
            /\ UNCHANGED detected
    /\ UNCHANGED <<env, kittyVars, composeVars, renderVars, funcVars, fetchVars>>

\* inline.go 49-58; ITERM_SESSION_ID is read only when the left operand of || is false
CheckTermProgram ==
    /\ dpc = "term_program"
    /\ IF termProgramGhostty(env)
       THEN /\ reads' = Append(reads, "TERM_PROGRAM")
            /\ detected' = ProtocolKitty
            /\ dpc' = "return"
       ELSE IF termProgramIterm(env)
       THEN /\ reads' = Append(reads, "TERM_PROGRAM")
            /\ detected' = ProtocolIterm
            /\ dpc' = "return"
       ELSE /\ reads' = reads \o <<"TERM_PROGRAM", "ITERM_SESSION_ID">>
            /\ IF itermSessionCheck(env)
               THEN /\ detected' = ProtocolIterm
                    /\ dpc' = "return"
               ELSE IF termProgramApple(env)
               THEN /\ detected' = ProtocolNone
                    /\ dpc' = "return"
               ELSE /\ dpc' = "term"
                    /\ UNCHANGED detected
    /\ UNCHANGED <<env, kittyVars, composeVars, renderVars, funcVars, fetchVars>>

\* inline.go 60-65
CheckTerm ==
    /\ dpc = "term"
    /\ reads' = Append(reads, "TERM")
    /\ detected' = IF termCheck(env) THEN ProtocolKitty ELSE ProtocolNone
    /\ dpc' = "return"
    /\ UNCHANGED <<env, kittyVars, composeVars, renderVars, funcVars, fetchVars>>

NextDetect == CheckOverride \/ CheckKittyWindow \/ CheckTermProgram \/ CheckTerm

SpecDetect == InitDetect /\ [][NextDetect]_vars

-----------------------------------------------------------------------------
(* The Kitty encoder: internal/inline/kitty.go *)

chunkSize == 4096

\* base64 characters are their index in the standard alphabet; Pad is '='
Pad == 64

\* base64.StdEncoding.EncodeToString: 3 bytes -> 4 characters, padded
EncodeToString(data) ==
    LET n == Len(data)
        byte(i) == IF i <= n THEN data[i] ELSE 0
        char(p) ==
            LET g == (p - 1) \div 4
                j == (p - 1) % 4
                triple == byte(3*g + 1) * 65536 + byte(3*g + 2) * 256 + byte(3*g + 3)
            IN  CASE j = 0 -> triple \div 262144
                  [] j = 1 -> (triple \div 4096) % 64
                  [] j = 2 -> IF 3*g + 2 > n THEN Pad ELSE (triple \div 64) % 64
                  [] j = 3 -> IF 3*g + 3 > n THEN Pad ELSE triple % 64
    IN  [p \in 1..(4 * ((n + 2) \div 3)) |-> char(p)]

\* kitty.go 39-43: the next chunk is the first chunkSize characters
kittyChunk(enc) ==
    IF Len(enc) > chunkSize THEN SubSeq(enc, 1, chunkSize) ELSE enc

\* kitty.go 44-47
kittyMore_byChunkLen(chunk, rest) == IF Len(chunk) = chunkSize THEN 1 ELSE 0

kittyMore(chunk, rest) == IF Len(rest) > 0 THEN 1 ELSE 0

\* kitty.go 49-64: the parameter list of the first chunk
kittyFirstParams_rowsAlways(data, more) ==
    <<"a=" \o data.Action, "f=100", "i=" \o ToString(data.ID), "m=" \o ToString(more), "q=2">>
    \o (IF data.Cols > 0 THEN <<"c=" \o ToString(data.Cols)>> ELSE <<>>)
    \o <<"r=" \o ToString(data.Rows)>>
    \o (IF data.NoCursor THEN <<"C=1">> ELSE <<>>)

kittyFirstParams(data, more) ==
    <<"a=" \o data.Action, "f=100", "i=" \o ToString(data.ID), "m=" \o ToString(more), "q=2">>
    \o (IF data.Cols > 0 THEN <<"c=" \o ToString(data.Cols)>> ELSE <<>>)
    \o (IF data.Rows > 0 THEN <<"r=" \o ToString(data.Rows)>> ELSE <<>>)
    \o (IF data.NoCursor THEN <<"C=1">> ELSE <<>>)

\* the three writes of one loop iteration: "\x1b_G<params>;", the chunk, "\x1b\\"
kittyWrites(data, isFirst, chunk, more) ==
    << [w |-> "ESC_G",
        params |-> IF isFirst THEN kittyFirstParams(data, more) ELSE <<"m=" \o ToString(more)>>,
        bytes |-> <<>>],
       [w |-> "payload", params |-> <<>>, bytes |-> chunk],
       [w |-> "ESC\\", params |-> <<>>, bytes |-> <<>>] >>

\* kitty.go 21-31: the kittyData that SendKittyPNG builds
kittyDataOf(in) ==
    [Action |-> "T", ID |-> in.ID, Data |-> in.Data, Cols |-> in.Cols, Rows |-> in.Rows,
     NoCursor |-> TRUE]

\* payload bytes of the inputs: a fixed non-periodic-in-64 pattern
PayloadBytes(n, seed) == [i \in 1..n |-> (i * 37 + (i \div 7) * 11 + seed) % 256]

\* bounds of the encoder inputs
MaxChunks == 3

Slack == 3

SmallMax == 6

\* bytes that fill one chunk exactly: chunkSize base64 characters
BytesPerChunk == (chunkSize \div 4) * 3

PayloadLens ==
    (0..SmallMax) \cup
    {k * BytesPerChunk + d : k \in 1..MaxChunks, d \in (0 - Slack)..Slack}

InitKitty ==
    /\ DetectIdle
    /\ ComposeIdle
    /\ RenderIdle
    /\ FuncIdle
    /\ FetchIdle
    /\ \E n \in PayloadLens, nonNil \in BOOLEAN, id \in {1, 7}, c \in {0, 6},
          r \in {0 - 1, 0, 3} :
          kin = [Out |-> nonNil, ID |-> id, Data |-> PayloadBytes(n, id), Cols |-> c, Rows |-> r]
    /\ kpc = "SendKittyPNG"
    /\ encoded = <<>>
    /\ first = FALSE
    /\ kout = <<>>

\* kitty.go 20-35: the guard of SendKittyPNG, then the head of sendKittyData
SendKittyPNG ==
    /\ kpc = "SendKittyPNG"
    /\ IF ~kin.Out \/ Len(kin.Data) = 0
       THEN /\ kpc' = "return"
            /\ UNCHANGED <<encoded, first>>
       ELSE /\ encoded' = EncodeToString(kittyDataOf(kin).Data)
            /\ first' = TRUE
            /\ kpc' = "loop"
    /\ UNCHANGED <<kin, kout, detectVars, composeVars, renderVars, funcVars, fetchVars>>

\* kitty.go 38-72: one iteration of the chunk loop
SendChunk ==
    /\ kpc = "loop"
    /\ Len(encoded) > 0
    /\ LET chunk == kittyChunk(encoded)
           rest == SubSeq(encoded, Len(chunk) + 1, Len(encoded))
           more == kittyMore(chunk, rest)
       IN  /\ encoded' = rest
           /\ kout' = kout \o kittyWrites(kittyDataOf(kin), first, chunk, more)
           /\ first' = FALSE
    /\ UNCHANGED <<kin, kpc, detectVars, composeVars, renderVars, funcVars, fetchVars>>

\* kitty.go 38: the loop condition fails
SendKittyReturn ==
    /\ kpc = "loop"
    /\ Len(encoded) = 0
    /\ kpc' = "return"
    /\ UNCHANGED <<kin, encoded, first, kout, detectVars, composeVars, renderVars, funcVars, fetchVars>>

NextKitty == SendKittyPNG \/ SendChunk \/ SendKittyReturn

SpecKitty == InitKitty /\ [][NextKitty]_vars

-----------------------------------------------------------------------------
(* The grid compositor: buildGridPNG in cmd/ig-cookies/main.go *)

\* int(math.Ceil(float64(n) / float64(cols))) for n >= 0 and cols >= 1
gridRows_floorPlusOne(n, cols) == n \div cols + 1

gridRows(n, cols) == (n + cols - 1) \div cols

\* main.go 681-684: the pixel origin of the image at index i (from 0)
gridOrigin_transposed(i, cols, thumbPx, paddingPx) ==
    [x |-> (i \div cols) * (thumbPx + paddingPx), y |-> (i % cols) * (thumbPx + paddingPx)]

gridOrigin(i, cols, thumbPx, paddingPx) ==
    [x |-> (i % cols) * (thumbPx + paddingPx), y |-> (i \div cols) * (thumbPx + paddingPx)]

\* main.go 671-695. The PNG is kept as the canvas it encodes: its size and,
\* for every input image, the square it is drawn into.
buildGridPNG(imgs, cols, thumbPx, paddingPx) ==
    IF Len(imgs) = 0
    THEN [png |-> NoPNG, width |-> 0, height |-> 0, err |-> TRUE]
    ELSE LET rows == gridRows(Len(imgs), cols)
             width == cols * thumbPx + (cols - 1) * paddingPx
             height == rows * thumbPx + (rows - 1) * paddingPx
             cell(i) ==
                 LET o == gridOrigin(i - 1, cols, thumbPx, paddingPx)
                 IN  [img |-> imgs[i], x0 |-> o.x, y0 |-> o.y,
                      x1 |-> o.x + thumbPx, y1 |-> o.y + thumbPx]
         IN  [png |-> [width |-> width, height |-> height,
                       cells |-> [i \in 1..Len(imgs) |-> cell(i)]],
              width |-> width, height |-> height, err |-> FALSE]

\* bounds of the compositor inputs
MaxImages == 9

MaxCols == 4

ThumbPxValues == {64, 128}

PaddingPxValues == {0, 4}

InitCompose ==
    /\ DetectIdle
    /\ KittyIdle
    /\ RenderIdle
    /\ FuncIdle
    /\ FetchIdle
    /\ \E n \in 0..MaxImages, c \in 1..MaxCols, t \in ThumbPxValues, p \in PaddingPxValues :
          cin = [images |-> [i \in 1..n |-> i], cols |-> c, thumbPx |-> t, paddingPx |-> p]
    /\ cpc = "call"
    /\ cres = [png |-> NoPNG, width |-> 0, height |-> 0, err |-> FALSE]

Compose ==
    /\ cpc = "call"
    /\ cres' = buildGridPNG(cin.images, cin.cols, cin.thumbPx, cin.paddingPx)
    /\ cpc' = "return"
    /\ UNCHANGED <<cin, detectVars, kittyVars, renderVars, funcVars, fetchVars>>

NextCompose == Compose

SpecCompose == InitCompose /\ [][NextCompose]_vars

-----------------------------------------------------------------------------
(* Cell geometry: CellAspectRatio, estimateRows, autoThumbCols, autoPageSize *)

\* floating-point values are kept as exact fractions num/den with den > 0
Frac(n, d) == [num |-> n, den |-> d]

IsDigit(c) == c \in {"0","1","2","3","4","5","6","7","8","9"}

DigitValue(c) ==
    CASE c = "0" -> 0 [] c = "1" -> 1 [] c = "2" -> 2 [] c = "3" -> 3 [] c = "4" -> 4
      [] c = "5" -> 5 [] c = "6" -> 6 [] c = "7" -> 7 [] c = "8" -> 8 [] c = "9" -> 9

\* the number the first k digits of ds spell
RECURSIVE DigitsValueUpTo(_, _)
DigitsValueUpTo(ds, k) ==
    IF k = 0 THEN 0 ELSE 10 * DigitsValueUpTo(ds, k - 1) + DigitValue(ds[k])

DigitsValue(ds) == DigitsValueUpTo(ds, Len(ds))

RECURSIVE Pow10(_)
Pow10(k) == IF k = 0 THEN 1 ELSE 10 * Pow10(k - 1)

\* the float64 values that are not numbers: NaN is 0/0, the infinities +-1/0
NaN == Frac(0, 0)

PosInf == Frac(1, 0)

NegInf == Frac(0 - 1, 0)

IsNaN(v) == v.den = 0 /\ v.num = 0

\* the float64 comparison a < b: false whenever an operand is NaN
FloatLess(a, b) ==
    IF IsNaN(a) \/ IsNaN(b) THEN FALSE
    ELSE IF a.den = 0 \/ b.den = 0
    THEN (a = NegInf /\ b # NegInf) \/ (b = PosInf /\ a # PosInf)
    ELSE a.num * b.den < b.num * a.den

L_nan == <<"n","a","n">>

L_inf == <<"i","n","f">>

L_infinity == <<"i","n","f","i","n","i","t","y">>

\* the number of digits of ds after its leading zeros
NumDigits(ds) == Len(ds) - Cardinality({i \in 1..Len(ds) : \A j \in 1..i : ds[j] = "0"})

\* the one element of a one-element set
Only(S) == CHOOSE x \in S : TRUE

\* the value of a mantissa (digits with at most one point) and an exponent
\* (optional sign and digits; empty when the text has none). A magnitude
\* above the float64 range is +-Inf with a range error, one below it is 0
\* without error.
parseDecimal(neg, mant, hasExp, expo) ==
    LET expSignLen == IF Len(expo) > 0 /\ expo[1] \in {"+", "-"} THEN 1 ELSE 0
        dots == {i \in 1..Len(mant) : mant[i] = "."}
        mantOK == /\ \A i \in 1..Len(mant) : IsDigit(mant[i]) \/ mant[i] = "."
                  /\ Cardinality(dots) <= 1
                  /\ \E i \in 1..Len(mant) : IsDigit(mant[i])
        expOK == \/ ~hasExp
                 \/ /\ Len(expo) > expSignLen
                    /\ \A i \in (expSignLen + 1)..Len(expo) : IsDigit(expo[i])
        fracLen == IF dots = {} THEN 0 ELSE Len(mant) - Only(dots)
        sgn == IF neg THEN 0 - 1 ELSE 1
    IN  IF ~(mantOK /\ expOK) THEN [err |-> TRUE, value |-> Frac(0, 1)]
        ELSE Only({
          IF m = 0 THEN [err |-> FALSE, value |-> Frac(0, 1)]
          ELSE IF net + nd > 309 THEN [err |-> TRUE, value |-> IF neg THEN NegInf ELSE PosInf]
          ELSE IF net + nd < 0 - 330 THEN [err |-> FALSE, value |-> Frac(0, 1)]
          ELSE IF net >= 0 THEN [err |-> FALSE, value |-> Frac(sgn * m * Pow10(net), 1)]
          ELSE [err |-> FALSE, value |-> Frac(sgn * m, Pow10(0 - net))] :
            m \in {DigitsValue(SelectSeq(mant, IsDigit))},
            nd \in {NumDigits(SelectSeq(mant, IsDigit))},
            net \in {(IF ~hasExp THEN 0
                      ELSE IF expo[1] = "-"
                      THEN 0 - DigitsValue(SubSeq(expo, expSignLen + 1, Len(expo)))
                      ELSE DigitsValue(SubSeq(expo, expSignLen + 1, Len(expo)))) - fracLen} })

\* the text after the sign: inf and infinity, else a mantissa with an
\* optional exponent after the first e
parseUnsigned(neg, body) ==
    IF body \in {L_inf, L_infinity}
    THEN [err |-> FALSE, value |-> IF neg THEN NegInf ELSE PosInf]
    ELSE LET epos == {i \in 1..Len(body) : body[i] = "e"}
             e1 == CHOOSE i \in epos : \A j \in epos : i <= j
         IN  IF epos = {} THEN parseDecimal(neg, body, FALSE, <<>>)
             ELSE Only({ parseDecimal(neg, mant, TRUE, expo) :
                         mant \in {SubSeq(body, 1, e1 - 1)},
                         expo \in {SubSeq(body, e1 + 1, Len(body))} })

\* strconv.ParseFloat(raw, 64) on decimal text: the special values (nan
\* without sign, inf and infinity with an optional sign, in any letter
\* case), else an optional sign, digits with at most one point and an
\* optional exponent. Hexadecimal mantissas and digit-separating
\* underscores are not among the texts parsed here, and every text has few
\* enough digits to be a fraction the comparisons with 0.1 and 2 treat as
\* float64 does.
ParseFloat(raw) ==
    Only({ IF low = L_nan THEN [err |-> FALSE, value |-> NaN]
           ELSE IF Len(low) > 0 /\ low[1] \in {"+", "-"}
           THEN parseUnsigned(low[1] = "-", Tail(low))
           ELSE parseUnsigned(FALSE, low) : low \in {ToLower(raw)} })

\* feed.go 450: the out-of-range test value < 0.1 || value > 2
aspectOutOfRange(value) == FloatLess(value, Frac(1, 10)) \/ FloatLess(Frac(2, 1), value)

\* feed.go 441-454
CellAspectRatio(envValue, defaultValue) ==
    LET raw == TrimSpace(envValue)
        parsed == ParseFloat(raw)
        value == parsed.value
    IN  IF raw = <<>> THEN defaultValue
        ELSE IF parsed.err THEN defaultValue
        ELSE IF aspectOutOfRange(value) THEN defaultValue
        ELSE value

\* the default both drivers pass: 0.5
DefaultCellAspect == Frac(1, 2)

cellAspectRatio(getenv) == CellAspectRatio(getenv["METCLI_CELL_ASPECT"], DefaultCellAspect)

\* math.Round of a positive fraction n/d: halves round away from zero
Round_halfToEven(n, d) ==
    LET q == n \div d
    IN  IF 2 * (n % d) = d THEN (IF q % 2 = 0 THEN q ELSE q + 1)
        ELSE (2 * n + d) \div (2 * d)

Round(n, d) == (2 * n + d) \div (2 * d)

\* int(x) of a NaN is implementation-dependent in Go: amd64 gives the least
\* int64 (written here as the least integer of the checker), arm64 gives 0
MinInt == 0 - 2147483647

NaNToInt == {0, MinInt}

\* main.go 725-735 (and ig-profile main.go 208-218); nanInt is what the
\* build's int(NaN) gives. rows < 1 is false of a NaN, so the NaN reaches
\* the conversion. The aspect is never infinite: CellAspectRatio returns
\* the default, a NaN, or a value in [0.1, 2].
estimateRows(colsCells, widthPx, heightPx, cellAspect, nanInt) ==
    IF colsCells <= 0 \/ widthPx <= 0 \/ heightPx <= 0 THEN 0
    ELSE IF IsNaN(cellAspect) THEN nanInt
    ELSE LET n == colsCells * heightPx * cellAspect.num
             d == widthPx * cellAspect.den
         IN  IF n < d THEN 1 ELSE Round(n, d)

\* main.go 737-750
autoThumbCols(gridCols, size) ==
    IF gridCols <= 0 THEN 12
    ELSE IF size.err \/ size.width <= 0 THEN 12
    ELSE IF size.width \div gridCols < 6 THEN 6
    ELSE size.width \div gridCols

\* main.go 752-769
autoPageSize_noFloor(gridCols, thumbCols, thumbPx, cellAspect, size, nanInt) ==
    IF gridCols <= 0 THEN 0
    ELSE IF size.err \/ size.rows <= 0 THEN gridCols * 8
    ELSE LET thumbRows == estimateRows(thumbCols, thumbPx, thumbPx, cellAspect, nanInt)
         IN  IF thumbRows <= 0 THEN gridCols * 8
             ELSE gridCols * (size.rows \div thumbRows)

autoPageSize(gridCols, thumbCols, thumbPx, cellAspect, size, nanInt) ==
    IF gridCols <= 0 THEN 0
    ELSE IF size.err \/ size.rows <= 0 THEN gridCols * 8
    ELSE LET thumbRows == estimateRows(thumbCols, thumbPx, thumbPx, cellAspect, nanInt)
         IN  IF thumbRows <= 0 THEN gridCols * 8
             ELSE gridCols * Max(1, size.rows \div thumbRows)

-----------------------------------------------------------------------------
(* Output: what the drivers write *)

Unit(kind, text, id, cols, rows, png) ==
    [kind |-> kind, text |-> text, id |-> id, cols |-> cols, rows |-> rows, png |-> png]

\* fmt.Fprintln(os.Stdout, item.URL)
UrlLine(url) == Unit("url", url, 0, 0, 0, NoPNG)

\* fmt.Fprintln(out)
Newline == Unit("newline", "", 0, 0, 0, NoPNG)

UrlLines_dropLast(its) == [i \in 1..(Len(its) - 1) |-> UrlLine(its[i])]

\* main.go 525-527 (ig-profile main.go 153-155): one line per item, in order
UrlLines(its) == [i \in 1..Len(its) |-> UrlLine(its[i])]

\* kitty.go 20-32 as the drivers see it: one image transmission, nothing on empty data
KittyImage(id, png, cols, rows) ==
    IF png = NoPNG THEN <<>> ELSE <<Unit("kitty", "", id, cols, rows, png)>>

\* feed.go 475-504 as the drivers see it: one escape sequence, nothing on empty data
ItermImage(name, data, widthCells, heightCells) ==
    IF data = NoPNG THEN <<>> ELSE <<Unit("iterm", name, 0, widthCells, heightCells, data)>>

\* main.go 771-781
advanceCursor(rows) == [i \in 1..(Max(rows, 1) + 1) |-> Newline]

\* the bytes of one downloaded image, as a one-cell picture
ImageData(i, w, h) ==
    [width |-> w, height |-> h, cells |-> <<[img |-> i, x0 |-> 0, y0 |-> 0, x1 |-> w, y1 |-> h]>>]

-----------------------------------------------------------------------------
(* renderGrid: cmd/ig-cookies/main.go 522-620 *)

\* what DownloadImage followed by image.Decode can give for one item
Outcomes == {"ok", "download_error", "decode_error"}

\* main.go 532-535: if thumbPx < 64 { thumbPx = 64 }
clampThumbPx_positiveOnly(px) == IF px < 1 THEN 1 ELSE px

clampThumbPx(px) == IF px < 64 THEN 64 ELSE px

\* main.go 531-555
resolvePlan(o, n, getenv, size, nanInt) ==
    LET thumbPx == clampThumbPx(o.ThumbPx)
        paddingPx == IF o.PaddingPx < 0 THEN 0 ELSE o.PaddingPx
        thumbCols == IF o.ThumbCols <= 0 THEN autoThumbCols(o.GridCols, size) ELSE o.ThumbCols
        gridCols == IF o.GridCols <= 0 THEN 1 ELSE o.GridCols
        pageSize1 == IF o.PageSize <= 0
                     THEN autoPageSize(gridCols, thumbCols, thumbPx, cellAspectRatio(getenv), size,
                                       nanInt)
                     ELSE o.PageSize
        pageSize == IF pageSize1 <= 0 THEN n ELSE pageSize1
    IN  [gridCols |-> gridCols, thumbPx |-> thumbPx, paddingPx |-> paddingPx,
         thumbCols |-> thumbCols, pageSize |-> pageSize]

\* main.go 563-566: the end of the page that begins at start
pageEnd_shortByOne(st, pageSize, n) == IF st + pageSize >= n THEN n - 1 ELSE st + pageSize

pageEnd(st, pageSize, n) == IF st + pageSize > n THEN n ELSE st + pageSize

\* main.go 562: the loop's post statement start += pageSize
nextStart_skipOne(st, pageSize) == st + pageSize + 1

nextStart(st, pageSize) == st + pageSize

\* main.go 583-585: a page without any decoded image is skipped
skipPage_singleToo(imgs) == Len(imgs) <= 1

skipPage(imgs) == Len(imgs) = 0

\* main.go 610 (ig-profile main.go 198): nextID++ on a uint32; the wrap at
\* 2^32 is out of reach of any run modelled here
incID_stuck(id) == id

incID(id) == id + 1

\* main.go 580: images = append(images, img)
appendImage_prepend(imgs, img) == <<img>> \o imgs

appendImage(imgs, img) == Append(imgs, img)

\* main.go 587-590
pageColsOf_noClamp(gridCols, imgs) == gridCols

pageColsOf(gridCols, imgs) == IF gridCols > Len(imgs) THEN Len(imgs) ELSE gridCols

\* main.go 522-561: detection, the URL fallback, the layout plan
RenderGridStart ==
    /\ rpc = "start"
    /\ driver = "renderGrid"
    /\ protocol' = detectInline(env)
    /\ IF detectInline(env) = ProtocolNone
       THEN /\ stdout' = stdout \o UrlLines(items)
            /\ rpc' = "done"
            /\ UNCHANGED <<plan, nextID, start>>
       ELSE /\ \E nanInt \in NaNToInt : plan' = resolvePlan(opts, Len(items), env, tty, nanInt)
            /\ nextID' = 1
            /\ start' = 0
            /\ rpc' = "loop"
            /\ UNCHANGED stdout
    /\ UNCHANGED <<driver, items, opts, iargs, tty, idx, images, page, writer, stderr,
                   attempts, pageLog>>
    /\ UNCHANGED <<detectVars, kittyVars, composeVars, funcVars, fetchVars>>

\* main.go 562-568: the loop condition and the page slice; the variables
\* declared in the loop body are new in every iteration
PageBegin ==
    /\ rpc = "loop"
    /\ IF start < Len(items)
       THEN /\ idx' = start
            /\ images' = <<>>
            /\ page' = NoPage
            /\ pageLog' = Append(pageLog,
                    [k \in 1..(pageEnd(start, plan.pageSize, Len(items)) - start) |-> start + k])
            /\ rpc' = "fetch"
       ELSE /\ rpc' = "exit"
            /\ UNCHANGED <<idx, images, page, pageLog>>
    /\ UNCHANGED <<driver, items, opts, iargs, tty, protocol, plan, start, nextID,
                   writer, stdout, stderr, attempts>>
    /\ UNCHANGED <<detectVars, kittyVars, composeVars, funcVars, fetchVars>>

\* main.go 569-581: download and decode of one item of the page
FetchItem ==
    /\ rpc = "fetch"
    /\ idx < pageEnd(start, plan.pageSize, Len(items))
    /\ \E o \in Outcomes :
          /\ attempts' = Append(attempts, [item |-> idx + 1, url |-> items[idx + 1], outcome |-> o])
          /\ IF o = "ok"
             THEN /\ images' = appendImage(images, idx + 1)
                  /\ UNCHANGED stderr
             ELSE /\ stderr' = Append(stderr, [item |-> idx + 1, what |-> o])
                  /\ UNCHANGED images
    /\ idx' = idx + 1
    /\ UNCHANGED <<driver, items, opts, iargs, tty, rpc, protocol, plan, start, page, nextID,
                   writer, stdout, pageLog>>
    /\ UNCHANGED <<detectVars, kittyVars, composeVars, funcVars, fetchVars>>

\* main.go 583-597: skip an empty page, else composite and size the page
CompositePage ==
    /\ rpc = "fetch"
    /\ idx = pageEnd(start, plan.pageSize, Len(items))
    /\ IF skipPage(images)
       THEN /\ start' = nextStart(start, plan.pageSize)
            /\ rpc' = "loop"
            /\ UNCHANGED <<page, stderr>>
       ELSE LET pageCols == pageColsOf(plan.gridCols, images)
                g == buildGridPNG(images, pageCols, plan.thumbPx, plan.paddingPx)
                colsCells == pageCols * plan.thumbCols
            IN  IF g.err
                THEN /\ stderr' = Append(stderr, [item |-> 0, what |-> "grid_error"])
                     /\ start' = nextStart(start, plan.pageSize)
                     /\ rpc' = "loop"
                     /\ UNCHANGED page
                ELSE /\ \E nanInt \in NaNToInt :
                            page' = [pageCols |-> pageCols, png |-> g.png, width |-> g.width,
                                     height |-> g.height, colsCells |-> colsCells,
                                     rowsCells |-> estimateRows(colsCells, g.width, g.height,
                                                                cellAspectRatio(env), nanInt)]
                     /\ rpc' = "encode"
                     /\ UNCHANGED <<start, stderr>>
    /\ UNCHANGED <<driver, items, opts, iargs, tty, protocol, plan, idx, images, nextID,
                   writer, stdout, attempts, pageLog>>
    /\ UNCHANGED <<detectVars, kittyVars, composeVars, funcVars, fetchVars>>

\* main.go 599-616: the switch on the protocol resolved at the start
encoderOf_noItermCase(p) ==
    CASE p = ProtocolKitty -> "SendKittyPNG"
      [] OTHER -> "urls"

encoderOf(p) ==
    CASE p = ProtocolIterm -> "SendItermInline"
      [] p = ProtocolKitty -> "SendKittyPNG"
      [] OTHER -> "urls"

\* main.go 599-616: the encoder of the detected protocol
TransmitPage ==
    /\ rpc = "encode"
    /\ CASE encoderOf(protocol) = "SendItermInline" ->
              /\ writer' = writer \o ItermImage("instagram-grid.png", page.png,
                                                 page.colsCells, page.rowsCells)
              /\ rpc' = "advance"
              /\ UNCHANGED <<nextID, stdout>>
         [] encoderOf(protocol) = "SendKittyPNG" ->
              /\ writer' = writer \o KittyImage(nextID, page.png, page.colsCells, page.rowsCells)
              /\ nextID' = incID(nextID)
              /\ rpc' = "advance"
              /\ UNCHANGED stdout
         [] OTHER ->
              /\ stdout' = stdout \o UrlLines(items)
              /\ rpc' = "exit"
              /\ UNCHANGED <<nextID, writer>>
    /\ UNCHANGED <<driver, items, opts, iargs, tty, protocol, plan, start, idx, images, page,
                   stderr, attempts, pageLog>>
    /\ UNCHANGED <<detectVars, kittyVars, composeVars, funcVars, fetchVars>>

\* main.go 617
AdvanceCursor ==
    /\ rpc = "advance"
    /\ writer' = writer \o advanceCursor(page.rowsCells)
    /\ rpc' = "flush"
    /\ UNCHANGED <<driver, items, opts, iargs, tty, protocol, plan, start, idx, images, page,
                   nextID, stdout, stderr, attempts, pageLog>>
    /\ UNCHANGED <<detectVars, kittyVars, composeVars, funcVars, fetchVars>>

\* main.go 618: _ = writer.Flush(): what has reached standard output and what
\* stays buffered
writerFlush_skipped(out, buf) == [out |-> out, buf |-> buf]

writerFlush(out, buf) == [out |-> out \o buf, buf |-> <<>>]

\* main.go 618 and the loop's post statement
FlushPage ==
    /\ rpc = "flush"
    /\ stdout' = writerFlush(stdout, writer).out
    /\ writer' = writerFlush(stdout, writer).buf
    /\ start' = nextStart(start, plan.pageSize)
    /\ rpc' = "loop"
    /\ UNCHANGED <<driver, items, opts, iargs, tty, protocol, plan, idx, images, page,
                   nextID, stderr, attempts, pageLog>>
    /\ UNCHANGED <<detectVars, kittyVars, composeVars, funcVars, fetchVars>>

\* main.go 558 (ig-profile main.go 160): the deferred writer.Flush()
RenderExit ==
    /\ rpc = "exit"
    /\ stdout' = stdout \o writer
    /\ writer' = <<>>
    /\ rpc' = "done"
    /\ UNCHANGED <<driver, items, opts, iargs, tty, protocol, plan, start, idx, images, page,
                   nextID, stderr, attempts, pageLog>>
    /\ UNCHANGED <<detectVars, kittyVars, composeVars, funcVars, fetchVars>>

-----------------------------------------------------------------------------
(* renderInline: cmd/ig-profile/main.go 150-206 *)

\* the pixel size image.DecodeConfig reports for item i
ImageWidth(i) == 1000

ImageHeight(i) == 500 * i

\* view.go 82-88 for an item without shortcode
InlineName == "instagram.img"

\* ig-profile main.go 150-163
RenderInlineStart ==
    /\ rpc = "start"
    /\ driver = "renderInline"
    /\ protocol' = detectInline(env)
    /\ IF detectInline(env) = ProtocolNone
       THEN /\ stdout' = stdout \o UrlLines(items)
            /\ rpc' = "done"
            /\ UNCHANGED <<nextID, idx>>
       ELSE /\ nextID' = 1
            /\ idx' = 0
            /\ rpc' = "inline_loop"
            /\ UNCHANGED stdout
    /\ UNCHANGED <<driver, items, opts, iargs, tty, plan, start, images, page, writer, stderr,
                   attempts, pageLog>>
    /\ UNCHANGED <<detectVars, kittyVars, composeVars, funcVars, fetchVars>>

\* ig-profile main.go 176-180
inlineRows(cols, rows, w, h, cellAspect, nanInt) ==
    IF rows = 0 /\ cols > 0 /\ w > 0 /\ h > 0 THEN estimateRows(cols, w, h, cellAspect, nanInt)
    ELSE rows

\* ig-profile main.go 164-205: one iteration of the item loop; what the
\* iteration writes is flushed before it ends (main.go 203-204)
RenderInlineItem ==
    /\ rpc = "inline_loop"
    /\ idx < Len(items)
    /\ \E o \in Outcomes, nanInt \in NaNToInt :
          LET i == idx + 1
              \* DownloadImage returns the bytes without a size when DecodeConfig fails
              w == IF o = "ok" THEN ImageWidth(i) ELSE 0
              h == IF o = "ok" THEN ImageHeight(i) ELSE 0
              data == ImageData(i, w, h)
              imageCols == iargs.cols
              imageRows == inlineRows(iargs.cols, iargs.rows, w, h, cellAspectRatio(env), nanInt)
          IN  /\ attempts' = Append(attempts, [item |-> i, url |-> items[i], outcome |-> o])
              /\ IF o = "download_error"
                 THEN /\ stderr' = Append(stderr, [item |-> i, what |-> o])
                      /\ UNCHANGED <<stdout, nextID>>
                 ELSE CASE protocol = ProtocolIterm ->
                             /\ stdout' = stdout \o writer
                                                 \o ItermImage(InlineName, data, imageCols, imageRows)
                                                 \o <<Newline>>
                             /\ UNCHANGED <<stderr, nextID>>
                        [] protocol = ProtocolKitty ->
                             \* EnsurePNG fails on bytes that do not decode
                             IF o = "decode_error"
                             THEN /\ stderr' = Append(stderr, [item |-> i, what |-> o])
                                  /\ UNCHANGED <<stdout, nextID>>
                             ELSE /\ stdout' = stdout \o writer
                                                      \o KittyImage(nextID, data, imageCols, imageRows)
                                                      \o <<Newline>>
                                  /\ nextID' = incID(nextID)
                                  /\ UNCHANGED stderr
                        [] OTHER ->
                             /\ stdout' = Append(stdout, UrlLine(items[i]))
                             /\ UNCHANGED <<stderr, nextID>>
    /\ idx' = idx + 1
    /\ UNCHANGED <<driver, items, opts, iargs, tty, rpc, protocol, plan, start, images, page,
                   writer, pageLog>>
    /\ UNCHANGED <<detectVars, kittyVars, composeVars, funcVars, fetchVars>>

\* ig-profile main.go 164: the range loop ends
RenderInlineEnd ==
    /\ rpc = "inline_loop"
    /\ idx = Len(items)
    /\ rpc' = "exit"
    /\ UNCHANGED <<driver, items, opts, iargs, tty, protocol, plan, start, idx, images, page,
                   nextID, writer, stdout, stderr, attempts, pageLog>>
    /\ UNCHANGED <<detectVars, kittyVars, composeVars, funcVars, fetchVars>>

-----------------------------------------------------------------------------
(* The runs of the two drivers *)

\* bounds of the driver inputs
MaxItems == 3

MaxGridCols == 3

MaxPageSize == 3

ItemURL(i) == "https://cdn.example/" \o ToString(i) \o ".jpg"

V_aspect_1 == <<"1",".","0">>

\* one environment per way of resolving the protocol, one with the cell
\* aspect set to a number and one with the cell aspect set to a NaN
RenderEnv(o, w, p, a) ==
    [n \in EnvNames \cup {"METCLI_CELL_ASPECT"} |->
        CASE n = "METCLI_INLINE" -> o
          [] n = "KITTY_WINDOW_ID" -> w
          [] n = "TERM_PROGRAM" -> p
          [] n = "METCLI_CELL_ASPECT" -> a
          [] OTHER -> <<>>]

RenderEnvs ==
    { RenderEnv(V_empty, <<"1">>, V_empty, V_empty),
      RenderEnv(V_empty, V_empty, <<"i","T","e","r","m",".","a","p","p">>, V_empty),
      RenderEnv(L_off, <<"1">>, V_empty, V_empty),
      RenderEnv(L_kitty, V_empty, V_empty, V_aspect_1),
      RenderEnv(L_iterm, V_empty, V_empty, L_nan) }

\* every option takes a value the code replaces (zero, too small, negative) and one it keeps
GridOptionValues ==
    [GridCols : 0..MaxGridCols, ThumbCols : {0, 5}, ThumbPx : {32, 128},
     PaddingPx : {0 - 2, 4}, PageSize : 0..MaxPageSize]
    \cup { [GridCols |-> 0 - 1, ThumbCols |-> 0 - 1, ThumbPx |-> 0 - 5, PaddingPx |-> 0 - 2,
            PageSize |-> 0 - 1],
           [GridCols |-> 0 - 2, ThumbCols |-> 5, ThumbPx |-> 0, PaddingPx |-> 0,
            PageSize |-> 2],
           [GridCols |-> 2, ThumbCols |-> 0 - 3, ThumbPx |-> 63, PaddingPx |-> 0 - 1,
            PageSize |-> 0 - 4] }

TtyValues == { NoTty, [err |-> FALSE, width |-> 80, rows |-> 24] }

InlineArgValues == [cols : {0, 10}, rows : {0, 4}]

InitRender ==
    /\ env \in RenderEnvs
    /\ dpc = "idle"
    /\ reads = <<>>
    /\ detected = "unset"
    /\ KittyIdle
    /\ ComposeIdle
    /\ FuncIdle
    /\ FetchIdle
    /\ driver \in {"renderGrid", "renderInline"}
    /\ \E n \in 0..MaxItems : items = [i \in 1..n |-> ItemURL(i)]
    /\ IF driver = "renderGrid"
       THEN opts \in GridOptionValues /\ tty \in TtyValues /\ iargs = [cols |-> 0, rows |-> 0]
       ELSE opts = NoOpts /\ tty = NoTty /\ iargs \in InlineArgValues
    /\ rpc = "start"
    /\ RenderLocalsInit

Next ==
    \/ RenderGridStart
    \/ PageBegin
    \/ FetchItem
    \/ CompositePage
    \/ TransmitPage
    \/ AdvanceCursor
    \/ FlushPage
    \/ RenderExit
    \/ RenderInlineStart
    \/ RenderInlineItem
    \/ RenderInlineEnd

Spec == InitRender /\ [][Next]_vars

\* a driver is one sequential thread: it always takes its next step, and
\* every download returns (the HTTP client has a timeout)
FairSpec == Spec /\ WF_vars(Next)

-----------------------------------------------------------------------------
(* The geometry functions called on their own *)

\* texts of METCLI_CELL_ASPECT
AspectTexts ==
    { V_empty, V_blank,
      <<"0",".","1">>, <<"2",".","0">>, <<"2">>, <<"0",".","5">>, <<"1",".","0">>,
      <<" ","1",".","5","\t">>, <<".","5">>, <<"1",".">>, <<"+","1",".","2","5">>,
      <<"1","e","0">>, <<"2","E","-","1">>, <<"5","e","-","1">>, <<"0",".","0","2","e","+","2">>,
      <<"0",".","0","9">>, <<"0",".","0","9","9","9">>, <<"2",".","0","1">>, <<"2",".","0","0","1">>,
      <<"3",".","0">>, <<"0">>, <<"0",".","0">>, <<"-","1">>, <<"-","0",".","5">>, <<"1","0">>,
      <<"1","e","3">>, <<"1","e","4","0","0">>, <<"-","1","e","4","0","0">>, <<"1","e","-","4","0","0">>,
      <<"n","a","n">>, <<"N","a","N">>, <<" ","N","A","N"," ">>, <<"+","n","a","n">>,
      <<"i","n","f">>, <<"+","I","n","f">>, <<"-","i","n","f">>, <<"I","n","f","i","n","i","t","y">>,
      <<"i","n","f","i">>,
      <<"a","b","c">>, <<"1",".","2",".","3">>, <<"1","e">>, <<"e","1">>, <<".">>, <<"-">>,
      <<"1",",","5">>, <<"1"," ","5">>, <<"0",".","5","x">> }

AspectEnv(a) == RenderEnv(V_empty, V_empty, V_empty, a)

EstimateRowsCalls ==
    [fn : {"estimateRows"}, colsCells : {0 - 1, 0, 1, 3, 10, 12}, widthPx : {0, 64, 1000},
     heightPx : {0 - 5, 0, 10, 64, 500, 1500},
     cellAspect : {DefaultCellAspect, Frac(1, 1), Frac(1, 10), Frac(2, 1), NaN}]

CellAspectRatioCalls ==
    [fn : {"CellAspectRatio"}, envKey : {"METCLI_CELL_ASPECT"},
     defaultValue : {DefaultCellAspect, Frac(1, 1)}]

PlanOptionValues ==
    [GridCols : {0 - 1, 0, 1, 3, 20}, ThumbCols : {0 - 1, 0, 5}, ThumbPx : {0, 64, 200},
     PaddingPx : {0 - 1, 0, 4}, PageSize : {0 - 1, 0, 2}]

PlanTtyValues ==
    { NoTty, [err |-> FALSE, width |-> 80, rows |-> 24], [err |-> FALSE, width |-> 10, rows |-> 3],
      [err |-> FALSE, width |-> 0, rows |-> 0], [err |-> FALSE, width |-> 120, rows |-> 0] }

PlanAspectTexts == { V_empty, <<"2",".","0">>, <<"n","a","n">> }

ResolvePlanCalls == [fn : {"resolvePlan"}, opts : PlanOptionValues, n : {0, 1, 5}]

InitGeometry ==
    /\ dpc = "idle"
    /\ reads = <<>>
    /\ detected = "unset"
    /\ KittyIdle
    /\ ComposeIdle
    /\ driver = "idle"
    /\ items = <<>>
    /\ opts = NoOpts
    /\ iargs = [cols |-> 0, rows |-> 0]
    /\ rpc = "idle"
    /\ RenderLocalsInit
    /\ \/ /\ fin \in EstimateRowsCalls
          /\ env = AspectEnv(V_empty)
          /\ tty = NoTty
       \/ /\ fin \in CellAspectRatioCalls
          /\ env \in {AspectEnv(a) : a \in AspectTexts}
          /\ tty = NoTty
       \/ /\ fin \in ResolvePlanCalls
          /\ env \in {AspectEnv(a) : a \in PlanAspectTexts}
          /\ tty \in PlanTtyValues
    /\ fpc = "call"
    /\ fres = [ok |-> FALSE]
    /\ FetchIdle

\* main.go 725-735
CallEstimateRows ==
    /\ fpc = "call"
    /\ fin.fn = "estimateRows"
    /\ \E nanInt \in NaNToInt :
          fres' = [ok |-> TRUE,
                   value |-> estimateRows(fin.colsCells, fin.widthPx, fin.heightPx,
                                          fin.cellAspect, nanInt)]
    /\ fpc' = "return"
    /\ UNCHANGED <<fin, detectVars, kittyVars, composeVars, renderVars, fetchVars>>

\* feed.go 441-454
CallCellAspectRatio ==
    /\ fpc = "call"
    /\ fin.fn = "CellAspectRatio"
    /\ fres' = [ok |-> TRUE, value |-> CellAspectRatio(env[fin.envKey], fin.defaultValue)]
    /\ fpc' = "return"
    /\ UNCHANGED <<fin, detectVars, kittyVars, composeVars, renderVars, fetchVars>>

\* main.go 531-555: the layout plan of renderGrid
CallResolvePlan ==
    /\ fpc = "call"
    /\ fin.fn = "resolvePlan"
    /\ \E nanInt \in NaNToInt :
          fres' = [ok |-> TRUE, value |-> resolvePlan(fin.opts, fin.n, env, tty, nanInt)]
    /\ fpc' = "return"
    /\ UNCHANGED <<fin, detectVars, kittyVars, composeVars, renderVars, fetchVars>>

NextGeometry == CallEstimateRows \/ CallCellAspectRatio \/ CallResolvePlan

SpecGeometry == InitGeometry /\ [][NextGeometry]_vars

-----------------------------------------------------------------------------
(* The iTerm encoder: SendItermInline in internal/inline *)

\* the printable ASCII characters in code order, the first being code 32
\* (the grave accent, code 96, is spelled out)
AsciiTable ==
    << " ", "!", "\"", "#", "$", "%", "&", "'", "(", ")", "*", "+", ",", "-", ".", "/",
       "0", "1", "2", "3", "4", "5", "6", "7", "8", "9", ":", ";", "<", "=", ">", "?",
       "@", "A", "B", "C", "D", "E", "F", "G", "H", "I", "J", "K", "L", "M", "N", "O",
       "P", "Q", "R", "S", "T", "U", "V", "W", "X", "Y", "Z", "[", "\\", "]", "^", "_",
       "grave", "a", "b", "c", "d", "e", "f", "g", "h", "i", "j", "k", "l", "m", "n", "o",
       "p", "q", "r", "s", "t", "u", "v", "w", "x", "y", "z", "{", "|", "}", "~" >>

\* []byte(s): the byte of every character of s
Bytes(s) ==
    [i \in 1..Len(s) |-> 31 + Only({k \in 1..Len(AsciiTable) : AsciiTable[k] = s[i]})]

L_metcli_bin == <<"m","e","t","c","l","i",".","b","i","n">>

\* path.Base on a non-empty path: drop the trailing slashes, keep what
\* follows the last slash; a path of slashes only is "/"
Base_keepPath(name) == name

Base(name) ==
    LET keep == {i \in 1..Len(name) : name[i] # "/"}
    IN  IF keep = {} THEN <<"/">>
        ELSE LET hi == CHOOSE i \in keep : \A j \in keep : i >= j
                 slashes == {i \in 1..hi : name[i] = "/"}
                 lo == IF slashes = {} THEN 1
                       ELSE 1 + CHOOSE i \in slashes : \A j \in slashes : i >= j
             IN  SubSeq(name, lo, hi)

\* feed.go 479-483: the name sent
itermName(f) ==
    Only({ Base(IF name = <<>> THEN L_metcli_bin ELSE name) : name \in {TrimSpace(f.Name)} })

\* feed.go 485-488
preserveAspectRatio(f) == IF f.Stretch THEN 0 ELSE 1

\* feed.go 489-500: the arguments of the File command, in order
itermArgs(f) ==
    << [key |-> "name", b64 |-> EncodeToString(Bytes(itermName(f)))],
       [key |-> "size", text |-> ToString(Len(f.Data))],
       [key |-> "inline", text |-> "1"],
       [key |-> "preserveAspectRatio", text |-> ToString(preserveAspectRatio(f))] >>
    \o (IF f.WidthCells > 0 THEN <<[key |-> "width", text |-> ToString(f.WidthCells)]>> ELSE <<>>)
    \o (IF f.HeightCells > 0 THEN <<[key |-> "height", text |-> ToString(f.HeightCells)]>>
        ELSE <<>>)

\* feed.go 502-503: the one Fprintf: "\x1b]1337;File=" args joined by ";",
\* then ":", the base64 of the data and "\x1b\\"
itermWrite(f) ==
    [intro |-> "ESC]1337;File=", args |-> itermArgs(f), sep |-> ":",
     b64 |-> EncodeToString(f.Data), terminator |-> "ESC\\"]

\* names, payload lengths and cell counts the encoder is called with
ItermNames ==
    { V_empty, V_blank, <<"i","n","s","t","a","g","r","a","m","-","g","r","i","d",".","p","n","g">>, <<" ","a",".","p","n","g"," ">>,
      <<"d","i","r","/","s","u","b","/","x",".","i","m","g">>, <<"/","t","m","p","/","a"," ","b",".","p","n","g">>, <<"d","i","r","/">>,
      <<".",".","/","u","p",".","p","n","g">>, <<"/">>, <<" ","/","/"," ">> }

ItermDataLens == {0, 1, 2, 3, 5, BytesPerChunk + 1}

ItermCalls ==
    { [fn |-> "SendItermInline", Out |-> o, Name |-> nm, Data |-> PayloadBytes(n, 5),
       WidthCells |-> w, HeightCells |-> h, Stretch |-> st] :
      o \in BOOLEAN, nm \in ItermNames, n \in ItermDataLens, w \in {0 - 1, 0, 40},
      h \in {0, 12}, st \in BOOLEAN }

InitIterm ==
    /\ DetectIdle
    /\ KittyIdle
    /\ ComposeIdle
    /\ RenderIdle
    /\ fin \in ItermCalls
    /\ fpc = "call"
    /\ fres = [ok |-> FALSE, writes |-> <<>>]
    /\ FetchIdle

\* feed.go 475-504
SendItermInline ==
    /\ fpc = "call"
    /\ fin.fn = "SendItermInline"
    /\ IF ~fin.Out \/ Len(fin.Data) = 0
       THEN fres' = [ok |-> TRUE, writes |-> <<>>]
       ELSE fres' = [ok |-> TRUE, writes |-> <<itermWrite(fin)>>]
    /\ fpc' = "return"
    /\ UNCHANGED <<fin, detectVars, kittyVars, composeVars, renderVars, fetchVars>>

NextIterm == SendItermInline

SpecIterm == InitIterm /\ [][NextIterm]_vars

-----------------------------------------------------------------------------
(* The profile commands: InstagramProfileCmd.Run and ig-profile's main *)

L_inline == <<"i","n","l","i","n","e">>

L_url == <<"u","r","l">>

L_json == <<"j","s","o","n">>

\* main.go 331-340: the format flag and its shorthands, the last one set wins
formatOfMetcli(f) ==
    LET f0 == ToLower(TrimSpace(f.Format))
        f1 == IF f.Inline THEN L_inline ELSE f0
        f2 == IF f.URL THEN L_url ELSE f1
    IN  IF f.JSON THEN L_json ELSE f2

\* ig-profile main.go 62-71
formatOfIgProfile(f) ==
    LET f0 == ToLower(TrimSpace(f.Format))
        f1 == IF f.JSON THEN L_json ELSE f0
        f2 == IF f.URL THEN L_url ELSE f1
    IN  IF f.Inline THEN L_inline ELSE f2

\* main.go 341-347 (ig-profile main.go 73-79): inline.Detect() is called when
\* the format is auto and standard output is a terminal (&& evaluates its
\* right side only then)
autoCallsDetect(format, isTerm) == format = L_auto /\ isTerm

autoFormat(format, isTerm, getenv) ==
    IF format # L_auto THEN format
    ELSE IF isTerm /\ detectInline(getenv) # ProtocolNone THEN L_inline
    ELSE L_url

\* main.go 348-350 (ig-profile main.go 80-82)
unsupportedFormat(format) == format \notin {L_inline, L_url, L_json}

\* the options and arguments the commands hand to their renderer
RunGridOptions == [GridCols |-> 2, ThumbCols |-> 0, ThumbPx |-> 128, PaddingPx |-> 4, PageSize |-> 1]

RunInlineArgs == [cols |-> 28, rows |-> 0]

RunFormats == { L_auto, <<" ","A","u","t","o","\t">>, L_inline, L_url, <<"p","n","g">> }

\* one run: the command, its flags, whether standard output is a terminal,
\* and what loading the items gives (an error, or n items)
RunCalls ==
    { c \in [fn : {"Run"}, cmd : {"metcli", "ig-profile"}, Format : RunFormats,
             Inline : BOOLEAN, URL : BOOLEAN, JSON : BOOLEAN, isTerminal : BOOLEAN,
             loadErr : BOOLEAN, n : {0, 2}] :
        c.loadErr => c.n = 0 }

InitRun ==
    /\ env \in RenderEnvs
    /\ dpc = "idle"
    /\ reads = <<>>
    /\ detected = "unset"
    /\ KittyIdle
    /\ ComposeIdle
    /\ driver = "idle"
    /\ items = <<>>
    /\ opts = NoOpts
    /\ iargs = [cols |-> 0, rows |-> 0]
    /\ rpc = "idle"
    /\ RenderLocalsInit
    /\ fin \in RunCalls
    /\ tty = IF fin.isTerminal THEN [err |-> FALSE, width |-> 80, rows |-> 24] ELSE NoTty
    /\ fpc = "format"
    /\ fres = [ok |-> FALSE, format |-> <<>>, formatDetect |-> "not_called"]
    /\ FetchIdle

\* main.go 331-350 (ig-profile main.go 62-82): the format decision
RunFormat ==
    /\ fpc = "format"
    /\ fin.fn = "Run"
    /\ LET f == IF fin.cmd = "metcli" THEN formatOfMetcli(fin) ELSE formatOfIgProfile(fin)
           format == autoFormat(f, fin.isTerminal, env)
       IN  /\ fres' = [ok |-> FALSE, format |-> format,
                       formatDetect |-> IF autoCallsDetect(f, fin.isTerminal)
                                        THEN detectInline(env) ELSE "not_called"]
           /\ fpc' = IF unsupportedFormat(format) THEN "failed" ELSE "load"
    /\ UNCHANGED <<fin, detectVars, kittyVars, composeVars, renderVars, fetchVars>>

\* main.go 352-369 (ig-profile main.go 84-119): the items are loaded; a run
\* without items ends here
RunLoad ==
    /\ fpc = "load"
    /\ IF fin.loadErr
       THEN /\ fpc' = "failed"
            /\ UNCHANGED <<items, stderr>>
       ELSE IF fin.n = 0
       THEN /\ stderr' = Append(stderr, [item |-> 0, what |-> "no_images"])
            /\ fpc' = "done"
            /\ UNCHANGED items
       ELSE /\ items' = [i \in 1..fin.n |-> ItemURL(i)]
            /\ fpc' = "switch"
            /\ UNCHANGED stderr
    /\ UNCHANGED <<driver, opts, iargs, tty, rpc, protocol, plan, start, idx, images, page,
                   nextID, writer, stdout, attempts, pageLog>>
    /\ UNCHANGED <<fin, fres, detectVars, kittyVars, composeVars, fetchVars>>

\* main.go 371-398 (ig-profile main.go 121-147): the switch on the format;
\* inline calls the renderer
RunSwitch ==
    /\ fpc = "switch"
    /\ CASE fres.format = L_json ->
              /\ stdout' = stdout \o <<Unit("json", "", 0, 0, 0, NoPNG)>>
              /\ fpc' = "done"
              /\ UNCHANGED <<driver, opts, iargs, rpc>>
         [] fres.format = L_url ->
              /\ stdout' = stdout \o UrlLines(items)
              /\ fpc' = "done"
              /\ UNCHANGED <<driver, opts, iargs, rpc>>
         [] OTHER ->
              /\ driver' = IF fin.cmd = "metcli" THEN "renderGrid" ELSE "renderInline"
              /\ opts' = IF fin.cmd = "metcli" THEN RunGridOptions ELSE NoOpts
              /\ iargs' = IF fin.cmd = "metcli" THEN iargs ELSE RunInlineArgs
              /\ rpc' = "start"
              /\ fpc' = "render"
              /\ UNCHANGED stdout
    /\ UNCHANGED <<items, tty, protocol, plan, start, idx, images, page, nextID, writer,
                   stderr, attempts, pageLog>>
    /\ UNCHANGED <<fin, fres, detectVars, kittyVars, composeVars, fetchVars>>

\* the renderer has returned
RunReturn ==
    /\ fpc = "render"
    /\ rpc = "done"
    /\ fpc' = "done"
    /\ UNCHANGED <<fin, fres, detectVars, kittyVars, composeVars, renderVars, fetchVars>>

NextRun == RunFormat \/ RunLoad \/ RunSwitch \/ RunReturn \/ Next

SpecRun == InitRun /\ [][NextRun]_vars

-----------------------------------------------------------------------------
(* FetchUserMedia: internal/instagram/feed.go 46-114 *)

\* feed.go 108: if pageCount > 200 { break }
PageCap == 200

\* feed.go 57-62
clampPageSize(pageSize) ==
    IF pageSize <= 0 THEN 50 ELSE IF pageSize > 50 THEN 50 ELSE pageSize

\* feed.go 66-77: the closure appendUnique on out and seen
RECURSIVE appendUnique_noSeenCheck(_, _, _)

RECURSIVE appendUnique(_, _, _)

appendUnique_noSeenCheck(its, out, seen) ==
    IF its = <<>> THEN [out |-> out, seen |-> seen]
    ELSE IF Head(its).URL = ""
    THEN appendUnique_noSeenCheck(Tail(its), out, seen)
    ELSE appendUnique_noSeenCheck(Tail(its), Append(out, Head(its)), seen \cup {Head(its).URL})

appendUnique(its, out, seen) ==
    IF its = <<>> THEN [out |-> out, seen |-> seen]
    ELSE IF Head(its).URL = "" \/ Head(its).URL \in seen
    THEN appendUnique(Tail(its), out, seen)
    ELSE appendUnique(Tail(its), Append(out, Head(its)), seen \cup {Head(its).URL})

\* feed.go 80 and 98: max > 0 && len(out) >= max
maxReached(max, out) == max > 0 /\ Len(out) >= max

\* feed.go 101: !page.moreAvailable || page.nextMaxID == ""
noMorePages(pg) == ~pg.moreAvailable \/ pg.nextMaxID = ""

\* feed.go 104: page.nextMaxID == maxID
cursorRepeats_never(pg, maxID) == FALSE

cursorRepeats(pg, maxID) == pg.nextMaxID = maxID

\* feed.go 108
pageCapReached(pageCount) == pageCount > PageCap

\* a media item: its URL and the shortcode that tells two items of one URL apart
MediaItem(u, code) == [URL |-> u, Shortcode |-> code]

\* the media a profile comes with
ProfileMediaValues ==
    { <<>>,
      <<MediaItem("u1", "m1")>>,
      <<MediaItem("u2", "m1"), MediaItem("", "m2"), MediaItem("u2", "m3"), MediaItem("u1", "m4")>> }

\* the items one feed page can hold
FeedItemLists ==
    { <<>>,
      <<MediaItem("u1", "f1"), MediaItem("u3", "f2")>>,
      <<MediaItem("", "f3"), MediaItem("u2", "f4"), MediaItem("u2", "f5")>> }

Cursors == {"", "A", "B"}

\* what fetchUserFeedPage can return for one request: an error, or a page
FeedResponses ==
    {[err |-> TRUE, items |-> <<>>, moreAvailable |-> FALSE, nextMaxID |-> ""]}
    \cup [err : {FALSE}, items : FeedItemLists, moreAvailable : BOOLEAN, nextMaxID : Cursors]

FetchCalls ==
    [fn : {"FetchUserMedia"}, media : ProfileMediaValues,
     userID : {V_empty, V_blank, <<" ","4","2">>}, max : {0 - 1, 0, 1, 2, 3}, pageSize : {12}]
    \cup [fn : {"FetchUserMedia"}, media : {<<>>}, userID : {<<"4","2">>}, max : {0},
          pageSize : {0 - 1, 0, 50, 80}]

InitFetch ==
    /\ dpc = "idle"
    /\ reads = <<>>
    /\ detected = "unset"
    /\ env = AspectEnv(V_empty)
    /\ KittyIdle
    /\ ComposeIdle
    /\ RenderIdle
    /\ FetchIdle
    /\ fin \in FetchCalls
    /\ fpc = "call"
    /\ fres = [ok |-> FALSE]

\* feed.go 54-90: the normalised arguments, the profile's own media, the
\* two returns before the page loop
FetchUserMediaCall ==
    /\ fpc = "call"
    /\ fin.fn = "FetchUserMedia"
    /\ LET max == IF fin.max = 0 THEN 0 - 1 ELSE fin.max
           au == appendUnique(fin.media, <<>>, {})
           userID == TrimSpace(fin.userID)
       IN  /\ fetch' = [max |-> max, pageSize |-> clampPageSize(fin.pageSize), userID |-> userID,
                        out |-> au.out, seen |-> au.seen, maxID |-> "", pageCount |-> 0]
           /\ IF maxReached(max, au.out)
              THEN /\ fres' = [ok |-> TRUE, value |-> SubSeq(au.out, 1, max), err |-> FALSE]
                   /\ fpc' = "return"
              ELSE IF userID = <<>>
              THEN /\ fres' = [ok |-> TRUE, value |-> au.out, err |-> FALSE]
                   /\ fpc' = "return"
              ELSE /\ fpc' = "loop"
                   /\ UNCHANGED fres
    /\ UNCHANGED <<fin, feedPage, detectVars, kittyVars, composeVars, renderVars>>

\* feed.go 91-113: one iteration of the page loop: the request, and either a
\* return, a break followed by the return of line 113, or the next cursor
FetchPage ==
    /\ fpc = "loop"
    /\ \E pg \in FeedResponses :
          LET pageCount == fetch.pageCount + 1
              au == IF pg.err THEN [out |-> fetch.out, seen |-> fetch.seen]
                    ELSE appendUnique(pg.items, fetch.out, fetch.seen)
          IN  /\ feedPage' = [called |-> TRUE, maxID |-> fetch.maxID, count |-> fetch.pageSize,
                              err |-> pg.err, items |-> pg.items,
                              moreAvailable |-> pg.moreAvailable, nextMaxID |-> pg.nextMaxID]
              /\ IF pg.err
                 THEN /\ fetch' = [fetch EXCEPT !.pageCount = pageCount]
                      /\ fres' = [ok |-> TRUE, value |-> fetch.out, err |-> TRUE]
                      /\ fpc' = "return"
                 ELSE IF maxReached(fetch.max, au.out)
                 THEN /\ fetch' = [fetch EXCEPT !.pageCount = pageCount, !.out = au.out,
                                                !.seen = au.seen]
                      /\ fres' = [ok |-> TRUE, value |-> SubSeq(au.out, 1, fetch.max), err |-> FALSE]
                      /\ fpc' = "return"
                 ELSE IF noMorePages(pg) \/ cursorRepeats(pg, fetch.maxID)
                 THEN /\ fetch' = [fetch EXCEPT !.pageCount = pageCount, !.out = au.out,
                                                !.seen = au.seen]
                      /\ fres' = [ok |-> TRUE, value |-> au.out, err |-> FALSE]
                      /\ fpc' = "return"
                 ELSE /\ fetch' = [fetch EXCEPT !.pageCount = pageCount, !.out = au.out,
                                                !.seen = au.seen, !.maxID = pg.nextMaxID]
                      /\ IF pageCapReached(pageCount)
                         THEN /\ fres' = [ok |-> TRUE, value |-> au.out, err |-> FALSE]
                              /\ fpc' = "return"
                         ELSE /\ fpc' = "loop"
                              /\ UNCHANGED fres
    /\ UNCHANGED <<fin, detectVars, kittyVars, composeVars, renderVars>>

NextFetch == FetchUserMediaCall \/ FetchPage

SpecFetch == InitFetch /\ [][NextFetch]_vars

-----------------------------------------------------------------------------
(* Properties of the protocol detector *)

\* a value counts as set when it has a character that is not white space
IsSet(v) == \E i \in 1..Len(v) : ~IsSpace(v[i])

\* v, without surrounding white space, spells lit in any letter case
Spells(v, lit) ==
    \E lo \in 1..(Len(v) + 1) :
       /\ \A i \in 1..(lo - 1) : IsSpace(v[i])
       /\ lo + Len(lit) - 1 <= Len(v)
       /\ \A i \in 1..Len(lit) : LowerChar(v[lo + i - 1]) = lit[i]
       /\ \A i \in (lo + Len(lit))..Len(v) : IsSpace(v[i])

\* v has lit as a substring in any letter case
Has(v, lit) ==
    \E k \in 0..(Len(v) - Len(lit)) : \A i \in 1..Len(lit) : LowerChar(v[k + i]) = lit[i]

\* the ordered rule list of the detector: <<condition, protocol>>, first match wins
RuleList(e) ==
    << <<Spells(e["METCLI_INLINE"], L_kitty), ProtocolKitty>>,
       <<Spells(e["METCLI_INLINE"], L_iterm) \/ Spells(e["METCLI_INLINE"], L_iterm2), ProtocolIterm>>,
       <<IsSet(e["METCLI_INLINE"]) /\ ~Spells(e["METCLI_INLINE"], L_auto), ProtocolNone>>,
       <<IsSet(e["KITTY_WINDOW_ID"]), ProtocolKitty>>,
       <<Has(e["TERM_PROGRAM"], L_ghostty), ProtocolKitty>>,
       <<Has(e["TERM_PROGRAM"], L_iterm) \/ IsSet(e["ITERM_SESSION_ID"]), ProtocolIterm>>,
       <<Has(e["TERM_PROGRAM"], L_apple_terminal), ProtocolNone>>,
       <<Has(e["TERM"], L_xterm_kitty) \/ Has(e["TERM"], L_ghostty), ProtocolKitty>>,
       <<TRUE, ProtocolNone>> >>

FirstMatch(rules) ==
    LET i == CHOOSE k \in 1..Len(rules) : rules[k][1] /\ \A j \in 1..(k - 1) : ~rules[j][1]
    IN  rules[i][2]

\* C1: for every environment detectInline returns one protocol, the one the
\* ordered first-match-wins rule list gives (override; window id; terminal
\* program ghostty / iterm or session id / apple_terminal; TERM; else none),
\* matching case-insensitively; a variable counts as set when it holds a
\* character other than white space.
C1_DetectFollowsRuleList ==
    /\ dpc = "return" => /\ detected \in Protocols
                         /\ detected = FirstMatch(RuleList(env))
                         /\ detected = detectInline(env)
    /\ dpc \in {"override", "kitty_window_id", "term_program", "term"} => detected = "unset"

\* C1 witness: the Apple Terminal negative decides although TERM names kitty
C1_Witness ==
    /\ dpc = "return"
    /\ ~IsSet(env["METCLI_INLINE"])
    /\ Has(env["TERM_PROGRAM"], L_apple_terminal)
    /\ Has(env["TERM"], L_xterm_kitty)
    /\ detected = ProtocolNone

\* the spellings of the override among the values tried, by the result they must give
OverrideKitty == { L_kitty, <<"K","I","T","T","Y">> }

OverrideIterm == { L_iterm, L_iterm2, <<" ","i","T","e","r","m","2"," ">> }

OverrideAuto == { V_empty, V_blank, L_auto, <<" ","A","u","t","o","\t">> }

\* C2: the override decides before any other variable is read: kitty ->
\* Kitty, iterm/iterm2 -> ITerm, every other value except empty and auto ->
\* None, whatever the other four variables hold; only empty and auto go on
\* to the later rules (which then read KITTY_WINDOW_ID next).
C2_OverrideDecidesFirst ==
    dpc = "return" =>
        LET o == env["METCLI_INLINE"]
        IN  /\ o \in OverrideKitty => detected = ProtocolKitty /\ reads = <<"METCLI_INLINE">>
            /\ o \in OverrideIterm => detected = ProtocolIterm /\ reads = <<"METCLI_INLINE">>
            /\ o \notin (OverrideKitty \cup OverrideIterm \cup OverrideAuto)
                  => detected = ProtocolNone /\ reads = <<"METCLI_INLINE">>
            /\ o \in OverrideAuto
                  => Len(reads) >= 2 /\ reads[1] = "METCLI_INLINE" /\ reads[2] = "KITTY_WINDOW_ID"

\* C2 witness: override none wins over a window id and a kitty TERM
C2_Witness ==
    /\ dpc = "return"
    /\ env["METCLI_INLINE"] = L_none
    /\ env["KITTY_WINDOW_ID"] = <<"1">>
    /\ env["TERM"] = L_xterm_kitty
    /\ detected = ProtocolNone

-----------------------------------------------------------------------------
(* Properties of the Kitty encoder *)

Range(f) == {f[i] : i \in DOMAIN f}

RECURSIVE ConcatBytes(_)
ConcatBytes(ws) == IF ws = <<>> THEN <<>> ELSE Head(ws).bytes \o ConcatBytes(Tail(ws))

KittyHeaders == SelectSeq(kout, LAMBDA x : x.w = "ESC_G")

KittyPayloads == SelectSeq(kout, LAMBDA x : x.w = "payload")

\* C3: a non-empty payload whose base64 text has length L is sent as exactly
\* ceil(L / 4096) chunks; all but the last carry m=1, the last m=0; no chunk
\* payload exceeds 4096; the payloads concatenated in order are the base64 text.
C3_KittyChunking ==
    (kpc = "return" /\ kin.Out /\ Len(kin.Data) >= 1) =>
        LET L == 4 * ((Len(kin.Data) + 2) \div 3)
            k == Len(KittyPayloads)
        IN  /\ k = (L + 4095) \div 4096
            /\ Len(KittyHeaders) = k
            /\ \A i \in 1..k :
                  /\ Len(KittyPayloads[i].bytes) <= 4096
                  /\ IF i < k
                     THEN "m=1" \in Range(KittyHeaders[i].params)
                          /\ "m=0" \notin Range(KittyHeaders[i].params)
                     ELSE "m=0" \in Range(KittyHeaders[i].params)
                          /\ "m=1" \notin Range(KittyHeaders[i].params)
            /\ Len(ConcatBytes(KittyPayloads)) = L
            /\ ConcatBytes(KittyPayloads) = EncodeToString(kin.Data)

\* C3 witness: three chunks, the last one short
C3_Witness ==
    /\ kpc = "return"
    /\ Len(kin.Data) = 2 * BytesPerChunk + 1
    /\ Len(KittyPayloads) = 3
    /\ Len(KittyPayloads[3].bytes) = 4

-----------------------------------------------------------------------------
(* Properties of the compositor *)

\* the least number of rows of c cells that hold n images
RowsNeeded(n, c) == CHOOSE r \in 0..n : r * c >= n /\ (r - 1) * c < n

\* the general part of C6: the size formula for N >= 1, the error for N = 0
GridSizeFormula ==
    LET n == Len(cin.images)
        c == cin.cols
        r == RowsNeeded(n, c)
    IN  /\ n >= 1 => /\ ~cres.err
                     /\ cres.width = c * cin.thumbPx + (c - 1) * cin.paddingPx
                     /\ cres.height = r * cin.thumbPx + (r - 1) * cin.paddingPx
                     /\ cres.png.width = cres.width /\ cres.png.height = cres.height
        /\ n = 0 => cres.err /\ cres.png = NoPNG

IsNineByThreeExample ==
    Len(cin.images) = 9 /\ cin.cols = 3 /\ cin.thumbPx = 128 /\ cin.paddingPx = 4

\* C6 as stated: the size formula, the error on no image, and the example
\* 9 images, 3 columns, 128 px, padding 4 giving 400 x 400.
C6_Original ==
    cpc = "return" =>
        /\ GridSizeFormula
        /\ IsNineByThreeExample => cres.width = 400 /\ cres.height = 400

\* C6 (amended): buildGridPNG on N >= 1 images and C >= 1 columns returns width
\* C*thumbPx + (C-1)*paddingPx and height R*thumbPx + (R-1)*paddingPx with
\* R = ceil(N/C); on no image it returns an error and no canvas; 9 images in
\* 3 columns of 128 px with padding 4 give 392 x 392.
C6_GridDimensions ==
    cpc = "return" =>
        /\ GridSizeFormula
        /\ IsNineByThreeExample => cres.width = 392 /\ cres.height = 392

\* C6 witness: the 9-image, 3-column example has been composed
C6_Witness ==
    /\ cpc = "return"
    /\ Len(cin.images) = 9 /\ cin.cols = 3 /\ cin.thumbPx = 128 /\ cin.paddingPx = 4
    /\ ~cres.err
    /\ Len(cres.png.cells) = 9

-----------------------------------------------------------------------------
(* Properties of the render drivers *)

\* everything written so far, flushed or still buffered
Written == stdout \o writer

IsImage(u) == u.kind \in {"kitty", "iterm"}

KittyIDs == LET ks == SelectSeq(Written, LAMBDA u : u.kind = "kitty")
            IN  [k \in 1..Len(ks) |-> ks[k].id]

HasProtocol == protocol \in {ProtocolKitty, ProtocolIterm}

\* C4: in one render pass the Kitty ids start at 1 and strictly increase, so
\* no two transmissions share an id; between two pages nothing but the id
\* counter is carried over: the output buffer is empty and the page's images
\* and composite start empty.
C4_KittyIdsIncrease ==
    /\ Len(KittyIDs) >= 1 => KittyIDs[1] = 1
    /\ \A k \in 1..(Len(KittyIDs) - 1) : KittyIDs[k] < KittyIDs[k + 1]
    /\ \A j, k \in 1..Len(KittyIDs) : j # k => KittyIDs[j] # KittyIDs[k]
    /\ \A k \in 1..Len(KittyIDs) : KittyIDs[k] < nextID
    /\ rpc \in {"loop", "inline_loop"} => writer = <<>>
    /\ (rpc = "fetch" /\ idx = start) => images = <<>> /\ page = NoPage /\ writer = <<>>

\* C4 witness: a pass that has sent at least two Kitty images, in either driver
C4_Witness ==
    /\ rpc = "done"
    /\ Len(KittyIDs) >= 2
    /\ KittyIDs[2] = 2

\* the items of page k (k from 0) of a list of total items cut every ps items
PageSlice(k, ps, total) ==
    LET lo == k * ps
        hi == Min((k + 1) * ps, total)
    IN  [j \in 1..(hi - lo) |-> lo + j]

RECURSIVE Flatten(_)
Flatten(ss) == IF ss = <<>> THEN <<>> ELSE Head(ss) \o Flatten(Tail(ss))

\* C5: renderGrid's pages are a lossless consecutive partition: the k-th page
\* visited is items [k*pageSize, min((k+1)*pageSize, total)), pages come in
\* increasing k, only the last may be shorter than pageSize, and at the end
\* the pages concatenated are the whole list in order.
C5_PagesPartitionItems ==
    (driver = "renderGrid" /\ HasProtocol) =>
        /\ Len(items) >= 1 => plan.pageSize >= 1
        /\ \A k \in 1..Len(pageLog) :
              /\ pageLog[k] = PageSlice(k - 1, plan.pageSize, Len(items))
              /\ Len(pageLog[k]) >= 1
              /\ k < Len(pageLog) => Len(pageLog[k]) = plan.pageSize
        /\ rpc \in {"exit", "done"} => Flatten(pageLog) = [i \in 1..Len(items) |-> i]

\* C5 witness: three items in pages of two: a full page and a short last page
C5_Witness ==
    /\ driver = "renderGrid"
    /\ rpc = "done"
    /\ Len(items) = 3
    /\ pageLog = << <<1, 2>>, <<3>> >>

\* the page being processed
CurrentPage == pageLog[Len(pageLog)]

\* C7 as stated: the column count of a composited page is
\* min(columns, number of items in the page slice), failed items included.
C7_Original ==
    rpc = "encode" => page.pageCols = Min(plan.gridCols, Len(CurrentPage))

\* C7 (amended): the column count used to composite a page and to size the
\* transmitted image is min(columns, number of images of the page that
\* downloaded and decoded), columns being the resolved grid column count.
C7_PageColumns ==
    rpc \in {"encode", "advance", "flush"} =>
        LET c == Min(plan.gridCols, Len(images))
        IN  /\ page.pageCols = c
            /\ page.width = c * plan.thumbPx + (c - 1) * plan.paddingPx
            /\ page.png.width = page.width
            /\ page.colsCells = c * plan.thumbCols
            /\ \A i \in 1..Len(writer) : IsImage(writer[i]) => writer[i].cols = c * plan.thumbCols

\* C7 witness: a page of three items in three columns with one failed item
\* is composited in two columns and sent
C7_Witness ==
    /\ rpc = "advance"
    /\ plan.gridCols = 3
    /\ Len(CurrentPage) = 3
    /\ Len(images) = 2
    /\ page.pageCols = 2
    /\ \E i \in 1..Len(writer) : IsImage(writer[i])

\* page k had at least one item that downloaded and decoded
PageHasImage(k) ==
    \E a \in 1..Len(attempts) :
        attempts[a].outcome = "ok" /\ \E j \in 1..Len(pageLog[k]) : pageLog[k][j] = attempts[a].item

\* C8: a page of renderGrid whose items all fail writes nothing (no escape
\* sequence, no blank line) and takes no Kitty id, and the next page is
\* processed; every canvas sent holds at least one decoded image.
C8_EmptyPageSkipped ==
    (driver = "renderGrid" /\ HasProtocol) =>
        /\ \A i \in 1..Len(Written) :
              /\ IsImage(Written[i]) => Len(Written[i].png.cells) >= 1
              /\ Written[i].kind = "newline" => i > 1 /\ Written[i - 1].kind # "url"
              /\ Written[i].kind # "url"
        /\ rpc \in {"loop", "exit", "done"} =>
              LET sent == {k \in 1..Len(pageLog) : PageHasImage(k)}
              IN  /\ Len(SelectSeq(Written, IsImage)) = Cardinality(sent)
                  /\ sent = {} => Written = <<>>
                  /\ protocol = ProtocolKitty => nextID = 1 + Cardinality(sent)
        /\ rpc \in {"exit", "done"} => Len(attempts) = Len(items)

\* C8 witness: the first page failed entirely, a later page was sent, and
\* its image is the first thing written and has id 1
C8_Witness ==
    /\ driver = "renderGrid"
    /\ rpc = "done"
    /\ protocol = ProtocolKitty
    /\ Len(pageLog) >= 2
    /\ ~PageHasImage(1)
    /\ PageHasImage(2)
    /\ stdout[1].kind = "kitty"
    /\ stdout[1].id = 1

\* every item attempted so far was attempted once, in input order, none left out
AttemptsInOrder ==
    \A a \in 1..Len(attempts) : attempts[a].item = a /\ attempts[a].url = items[a]

\* an upper bound on the steps renderGrid still has to take: every item
\* left costs one download, every page left five more steps
GridStepsAfter(st) == 6 * (Len(items) - Min(st, Len(items))) + 2

GridStepsLeft ==
    CASE rpc = "start" -> GridStepsAfter(0) + 1
      [] rpc = "loop" -> GridStepsAfter(start)
      [] rpc = "fetch" -> (pageEnd(start, plan.pageSize, Len(items)) - idx) + 4
                          + GridStepsAfter(start + plan.pageSize)
      [] rpc = "encode" -> 3 + GridStepsAfter(start + plan.pageSize)
      [] rpc = "advance" -> 2 + GridStepsAfter(start + plan.pageSize)
      [] rpc = "flush" -> 1 + GridStepsAfter(start + plan.pageSize)
      [] rpc = "exit" -> 1
      [] OTHER -> 0

\* renderGrid is at a statement it can execute: the item loop is the only
\* position whose steps have a condition on the data, and one of them applies
GridCanStep ==
    \/ rpc \in {"start", "loop", "encode", "advance", "flush", "exit"}
    \/ rpc = "fetch" /\ idx <= pageEnd(start, plan.pageSize, Len(items))

\* C9: whatever downloads and decodes fail, renderGrid attempts every item
\* exactly once, in input order, is never stopped before its end, and ends
\* after the last page: until it is done it has a next step, every step
\* brings the end nearer, and at the end all items have been attempted.
C9_EveryItemAttemptedOnce ==
    /\ [](driver = "renderGrid" => AttemptsInOrder)
    /\ []((driver = "renderGrid" /\ HasProtocol /\ rpc \in {"exit", "done"})
             => Len(attempts) = Len(items))
    /\ []((driver = "renderGrid" /\ rpc # "done") => GridCanStep)
    /\ [][driver = "renderGrid" => (GridStepsLeft' < GridStepsLeft /\ GridStepsLeft' >= 0)]_vars

\* C9 witness: a run in which every item failed has ended after trying all of them
C9_Witness ==
    /\ driver = "renderGrid"
    /\ rpc = "done"
    /\ Len(items) >= 3
    /\ Len(attempts) = Len(items)
    /\ \A a \in 1..Len(attempts) : attempts[a].outcome # "ok"
    /\ \E a, b \in 1..Len(attempts) :
          attempts[a].outcome = "download_error" /\ attempts[b].outcome = "decode_error"

\* C10: when the protocol is None a driver prints one line per item with the
\* item's URL, in input order, downloads nothing and writes no escape sequence.
C10_NoneFallsBackToURLs ==
    protocol = ProtocolNone =>
        /\ rpc = "done"
        /\ Len(stdout) = Len(items)
        /\ \A i \in 1..Len(items) : stdout[i].kind = "url" /\ stdout[i].text = items[i]
        /\ writer = <<>>
        /\ attempts = <<>>
        /\ stderr = <<>>

\* C10 witness: renderInline has fallen back to the URLs of two or more items
C10_Witness ==
    /\ driver = "renderInline"
    /\ protocol = ProtocolNone
    /\ rpc = "done"
    /\ Len(items) >= 2
    /\ Len(stdout) = Len(items)

-----------------------------------------------------------------------------
(* Properties of the geometry functions *)

\* the call of the worked example: 10 cells, 1000 x 500 pixels, cell aspect 0.5
IsRowsExample ==
    /\ fin.fn = "estimateRows"
    /\ fin.colsCells = 10 /\ fin.widthPx = 1000 /\ fin.heightPx = 500
    /\ fin.cellAspect = Frac(1, 2)

\* v is the integer nearest to n/d, the half going away from zero (n, d > 0)
IsNearestHalfUp(v, n, d) == 2 * v * d <= 2 * n + d /\ 2 * n + d < 2 * (v + 1) * d

\* the rule of estimateRows on numbers: 0 when a dimension is not positive,
\* else colsCells * (heightPx / widthPx) * cellAspect, raised to 1 when
\* below 1, rounded to the nearest integer
RowsFormula ==
    (fin.fn = "estimateRows" /\ ~IsNaN(fin.cellAspect)) =>
        IF fin.colsCells <= 0 \/ fin.widthPx <= 0 \/ fin.heightPx <= 0
        THEN fres.value = 0
        ELSE LET n == fin.colsCells * fin.heightPx * fin.cellAspect.num
                 d == fin.widthPx * fin.cellAspect.den
             IN  IF n < d THEN fres.value = 1 ELSE IsNearestHalfUp(fres.value, n, d)

\* C11 as stated: estimateRows(10, 1000, 500, 0.5) returns 2, the exact
\* half 2.5 being rounded to 2.
C11_Original ==
    fpc = "return" =>
        /\ RowsFormula
        /\ IsRowsExample => fres.value = 2

\* C11 (amended): estimateRows(10, 1000, 500, 0.5) returns 3: the result is
\* round(colsCells * (heightPx / widthPx) * cellAspect), and the exact half
\* 2.5 is rounded away from zero, to 3.
C11_EstimateRowsExample ==
    fpc = "return" =>
        /\ RowsFormula
        /\ IsRowsExample => fres.value = 3

\* C11 witness: the example has been computed
C11_Witness ==
    /\ fpc = "return"
    /\ IsRowsExample
    /\ fres.ok
    /\ fres.value = 3

\* v is a number within [0.1, 2.0]
InAspectRange(v) == v.den > 0 /\ 10 * v.num >= v.den /\ v.num <= 2 * v.den

\* fractions a and b are the same number
SameNumber(a, b) == a.den > 0 /\ b.den > 0 /\ a.num * b.den = b.num * a.den

AspectText == TrimSpace(env["METCLI_CELL_ASPECT"])

\* C12: for every text of the cell-aspect variable CellAspectRatio returns
\* the default or a parsed number within [0.1, 2.0]; empty, unparsable and
\* out-of-range texts ("3.0"), and texts that parse to a value that is not a
\* finite number, give the default; 0.1 and 2.0 are accepted.
C12_AspectDefaultOrInRange ==
    (fpc = "return" /\ fin.fn = "CellAspectRatio") =>
        /\ fres.value = fin.defaultValue \/ InAspectRange(fres.value)
        /\ AspectText \in {<<>>, <<"3",".","0">>, <<"a","b","c">>, <<"1","e","4","0","0">>,
                           <<"i","n","f">>, <<"-","i","n","f">>, <<"n","a","n">>, <<"N","a","N">>}
              => fres.value = fin.defaultValue
        /\ AspectText = <<"0",".","1">> => SameNumber(fres.value, Frac(1, 10))
        /\ AspectText = <<"2",".","0">> => SameNumber(fres.value, Frac(2, 1))

\* the part of C12 that the code keeps: every text but a NaN gives the
\* default or a number within [0.1, 2.0]
AspectInRangeUnlessNaN ==
    (fpc = "return" /\ fin.fn = "CellAspectRatio" /\ ToLower(AspectText) # L_nan) =>
        /\ fres.value = fin.defaultValue \/ InAspectRange(fres.value)
        /\ AspectText \in {<<>>, <<"3",".","0">>, <<"a","b","c">>, <<"1","e","4","0","0">>,
                           <<"i","n","f">>, <<"-","i","n","f">>}
              => fres.value = fin.defaultValue
        /\ AspectText = <<"0",".","1">> => SameNumber(fres.value, Frac(1, 10))
        /\ AspectText = <<"2",".","0">> => SameNumber(fres.value, Frac(2, 1))

-----------------------------------------------------------------------------
(* Properties of the page output of renderGrid *)

ImagePositions == {i \in 1..Len(Written) : IsImage(Written[i])}

\* the position of the first image after position i, or one past the end
NextImage(i) ==
    IF \E j \in ImagePositions : j > i
    THEN CHOOSE j \in ImagePositions : j > i /\ \A k \in ImagePositions : k > i => j <= k
    ELSE Len(Written) + 1

\* C13: in renderGrid every transmitted page is followed by exactly
\* rowsCells + 1 newlines, rowsCells being the row count handed to the
\* encoder for that page, and newlines are written nowhere else; so the
\* output ends with blank lines when the last page was transmitted.
C13_CursorAdvance ==
    (driver = "renderGrid" /\ HasProtocol /\ rpc \in {"loop", "exit", "done"}) =>
        /\ Written # <<>> => 1 \in ImagePositions
        /\ \A i \in ImagePositions :
              /\ NextImage(i) - i - 1 = Written[i].rows + 1
              /\ \A j \in (i + 1)..(NextImage(i) - 1) : Written[j].kind = "newline"
        /\ (Written # <<>>) => Written[Len(Written)].kind = "newline"

\* what the code keeps of C13: rows + 1 newlines with rows raised to 1
CursorAdvanceClamped ==
    (driver = "renderGrid" /\ HasProtocol /\ rpc \in {"loop", "exit", "done"}) =>
        /\ Written # <<>> => 1 \in ImagePositions
        /\ \A i \in ImagePositions :
              /\ NextImage(i) - i - 1 = Max(Written[i].rows, 1) + 1
              /\ \A j \in (i + 1)..(NextImage(i) - 1) : Written[j].kind = "newline"
              /\ ~IsNaN(cellAspectRatio(env)) => Written[i].rows >= 1

-----------------------------------------------------------------------------
(* Properties of the placement of the images on the canvas *)

\* two squares share a pixel (a square holds x0 <= x < x1, y0 <= y < y1)
Overlap(a, b) == a.x0 < b.x1 /\ b.x0 < a.x1 /\ a.y0 < b.y1 /\ b.y0 < a.y1

\* C14: buildGridPNG draws the image at input index i (from 0) into the
\* thumbPx x thumbPx square with origin (col*(thumbPx+paddingPx),
\* row*(thumbPx+paddingPx)), row = i / cols, col = i % cols; for N >= 1,
\* cols >= 1 and paddingPx >= 0 every square lies inside the canvas and no
\* two squares overlap.
C14_CellPlacement ==
    (cpc = "return" /\ Len(cin.images) >= 1) =>
        LET cells == cres.png.cells
            stride == cin.thumbPx + cin.paddingPx
        IN  /\ Len(cells) = Len(cin.images)
            /\ \A k \in 1..Len(cells) :
                  /\ cells[k].img = cin.images[k]
                  /\ cells[k].x0 = ((k - 1) % cin.cols) * stride
                  /\ cells[k].y0 = ((k - 1) \div cin.cols) * stride
                  /\ cells[k].x1 - cells[k].x0 = cin.thumbPx
                  /\ cells[k].y1 - cells[k].y0 = cin.thumbPx
                  /\ 0 <= cells[k].x0 /\ cells[k].x1 <= cres.png.width
                  /\ 0 <= cells[k].y0 /\ cells[k].y1 <= cres.png.height
            /\ \A j, k \in 1..Len(cells) : j # k => ~Overlap(cells[j], cells[k])

\* C14 witness: a grid with a short last row and no padding, whose first
\* two squares touch without overlapping
C14_Witness ==
    /\ cpc = "return"
    /\ Len(cin.images) = 5 /\ cin.cols = 4 /\ cin.paddingPx = 0
    /\ cres.png.cells[1].x1 = cres.png.cells[2].x0
    /\ cres.png.cells[5].y0 = cin.thumbPx
    /\ cres.png.cells[5].x0 = 0

\* the items of the current page that downloaded and decoded, in page order
DecodedOfPage ==
    SelectSeq(CurrentPage,
              LAMBDA it : \E a \in 1..Len(attempts) :
                              attempts[a].item = it /\ attempts[a].outcome = "ok")

\* the images drawn on a canvas, in drawing order
DrawnOn(png) == [k \in 1..Len(png.cells) |-> png.cells[k].img]

\* C15: the images composited for a page are exactly the items of the page
\* that downloaded and decoded, in input order: a subsequence of the page
\* slice, without repetition, whatever the other items of the page did.
C15_DecodedInOrder ==
    (driver = "renderGrid" /\ HasProtocol) =>
        /\ rpc = "fetch" => images = DecodedOfPage
        /\ rpc \in {"encode", "advance", "flush"} =>
              /\ images = DecodedOfPage
              /\ DrawnOn(page.png) = DecodedOfPage
              /\ \A j, k \in 1..Len(images) : j < k => images[j] < images[k]
              /\ \A i \in 1..Len(writer) : IsImage(writer[i]) => DrawnOn(writer[i].png) = DecodedOfPage

\* C15 witness: a page of three items whose middle item failed has been
\* composited from the first and the third, in that order, and sent
C15_Witness ==
    /\ driver = "renderGrid"
    /\ rpc = "advance"
    /\ CurrentPage = <<1, 2, 3>>
    /\ attempts[2].outcome # "ok"
    /\ DrawnOn(page.png) = <<1, 3>>
    /\ \E i \in 1..Len(writer) : IsImage(writer[i]) /\ DrawnOn(writer[i].png) = <<1, 3>>

-----------------------------------------------------------------------------
(* Properties of the iTerm encoder *)

\* the file name of a path that has one: its last element that is not
\* empty, that is the longest slash-free stretch that ends at the last
\* character that is not a slash
FileNameOf(nm) ==
    LET hi == CHOOSE i \in 1..Len(nm) : nm[i] # "/" /\ \A j \in (i + 1)..Len(nm) : nm[j] = "/"
        lo == CHOOSE i \in 1..hi :
                  /\ \A j \in i..hi : nm[j] # "/"
                  /\ i > 1 => nm[i - 1] = "/"
    IN  [k \in 1..(hi - lo + 1) |-> nm[lo + k - 1]]

HasFileName(nm) == \E i \in 1..Len(nm) : nm[i] # "/"

\* "bWV0Y2xpLmJpbg==", the base64 text of "metcli.bin", as alphabet indices
B64_metcli_bin == <<27, 22, 21, 52, 24, 54, 49, 41, 11, 38, 9, 41, 27, 32, 64, 64>>

ItermKeys(w) == [k \in 1..Len(w.args) |-> w.args[k].key]

-----------------------------------------------------------------------------
(* Properties of the layout plan of renderGrid *)

\* C17: whatever gridOptions holds (zero and negative values included) and
\* whatever the items do, every buildGridPNG call of renderGrid has
\* cols >= 1, at least one image (so at least one row), thumbPx >= 64 and
\* paddingPx >= 0.
C17_CompositeArguments ==
    (driver = "renderGrid" /\ HasProtocol) =>
        /\ rpc # "start" => plan.gridCols >= 1 /\ plan.thumbPx >= 64 /\ plan.paddingPx >= 0
        /\ (rpc = "fetch" /\ idx = pageEnd(start, plan.pageSize, Len(items)) /\ ~skipPage(images))
              => Len(images) >= 1 /\ pageColsOf(plan.gridCols, images) >= 1
        /\ rpc \in {"encode", "advance", "flush"} =>
              /\ page.pageCols >= 1
              /\ Len(page.png.cells) >= 1
              /\ page.height >= 64
              /\ \A k \in 1..Len(page.png.cells) :
                    /\ page.png.cells[k].x1 - page.png.cells[k].x0 >= 64
                    /\ page.png.cells[k].x1 - page.png.cells[k].x0 = plan.thumbPx
              /\ page.width >= page.pageCols * plan.thumbPx
              /\ page.width = page.pageCols * plan.thumbPx + (page.pageCols - 1) * plan.paddingPx
        /\ \A e \in 1..Len(stderr) : stderr[e].what # "grid_error"

\* C17 witness: with every option negative a page has been composited in
\* one column of 64 pixels without padding
C17_Witness ==
    /\ driver = "renderGrid"
    /\ rpc = "encode"
    /\ opts.GridCols < 0 /\ opts.ThumbPx < 0 /\ opts.PaddingPx < 0 /\ opts.ThumbCols < 0
    /\ opts.PageSize < 0
    /\ page.pageCols = 1
    /\ Len(page.png.cells) >= 2
    /\ page.width = 64
    /\ page.height = 64 * Len(page.png.cells)

-----------------------------------------------------------------------------
(* Properties of the Kitty chunk headers *)

\* the number of chunks written so far
KittyChunks == Len(kout) \div 3

\* C18: in a Kitty transmission the first chunk alone carries the full
\* parameter set a=T, f=100, i=<id>, m, q=2, c=<cols> only when cols > 0,
\* r=<rows> only when rows > 0, C=1; every later chunk carries only its m
\* flag and its payload; every chunk is closed by the terminator before
\* the next one starts.
C18_KittyHeaders ==
    /\ Len(kout) = 3 * KittyChunks
    /\ \A j \in 1..KittyChunks :
          /\ kout[3 * j - 2].w = "ESC_G"
          /\ kout[3 * j - 1].w = "payload"
          /\ Len(kout[3 * j - 1].bytes) >= 1
          /\ kout[3 * j].w = "ESC\\"
          /\ LET params == kout[3 * j - 2].params
                 m == IF 3 * j < Len(kout) \/ Len(encoded) > 0 THEN "m=1" ELSE "m=0"
             IN  IF j = 1
                 THEN params = <<"a=T", "f=100", "i=" \o ToString(kin.ID), m, "q=2">>
                               \o (IF kin.Cols > 0 THEN <<"c=" \o ToString(kin.Cols)>> ELSE <<>>)
                               \o (IF kin.Rows > 0 THEN <<"r=" \o ToString(kin.Rows)>> ELSE <<>>)
                               \o <<"C=1">>
                 ELSE params = <<m>>

\* C18 witness: three chunks for an image with a column count and a
\* negative row count: the first header has c and no r, the later two
\* have the m flag only
C18_Witness ==
    /\ kpc = "return"
    /\ kin.Cols = 6 /\ kin.Rows < 0 /\ kin.ID = 7
    /\ KittyChunks = 3
    /\ kout[1].params = <<"a=T", "f=100", "i=7", "m=1", "q=2", "c=6", "C=1">>
    /\ kout[4].params = <<"m=1">>
    /\ kout[7].params = <<"m=0">>

-----------------------------------------------------------------------------
(* Properties of the layout plan *)

\* a resolvePlan call has returned
PlanResolved == fpc = "return" /\ fin.fn = "resolvePlan"

\* the terminal size can be queried: term.GetSize gives no error and a width
TtyQueried == ~tty.err /\ tty.width > 0

\* max(6, terminalWidth / columns), and 12 when the size cannot be queried
ThumbColsFormula(columns) ==
    IF TtyQueried THEN Max(6, tty.width \div columns) ELSE 12

\* C19: when ThumbCols <= 0 the thumbnail width in cells is
\* max(6, terminalWidth / columns), columns being the resolved number of
\* grid columns (>= 1), and 12 only when the terminal size cannot be
\* queried, for every configured GridCols, GridCols <= 0 included.
C19_AutoThumbCols ==
    (PlanResolved /\ fin.opts.ThumbCols <= 0)
        => /\ fres.value.gridCols >= 1
           /\ fres.value.thumbCols = ThumbColsFormula(fres.value.gridCols)

\* The same statement for a configured GridCols >= 1 alone.
AutoThumbColsPositiveGrid ==
    (PlanResolved /\ fin.opts.ThumbCols <= 0 /\ fin.opts.GridCols >= 1)
        => fres.value.thumbCols = ThumbColsFormula(fres.value.gridCols)


\* the page size the rule gives for the resolved columns, thumbnail width
\* and thumbnail size of a plan; nanInt is what int(NaN) gives on the build
PageSizeRule(resolved, nanInt) ==
    LET columns == resolved.gridCols
        thumbRows == estimateRows(resolved.thumbCols, resolved.thumbPx, resolved.thumbPx,
                                  cellAspectRatio(env), nanInt)
        auto == IF tty.err \/ tty.rows <= 0 \/ thumbRows <= 0
                THEN columns * 8
                ELSE columns * Max(1, tty.rows \div thumbRows)
        supplied == IF fin.opts.PageSize > 0 THEN fin.opts.PageSize ELSE auto
    IN  IF supplied <= 0 THEN fin.n ELSE supplied

\* C20: the resolved page size is the supplied PageSize when it is
\* positive; otherwise columns * max(1, terminalRows / thumbRows) with
\* thumbRows = estimateRows(thumbCols, thumbPx, thumbPx, cellAspect), or
\* columns * 8 when the terminal rows or thumbRows cannot be determined; and
\* the item count if the value is still non-positive. For a non-empty item
\* list the resolved page size is at least 1.
C20_PageSize ==
    PlanResolved
        => /\ \E nanInt \in NaNToInt :
                 fres.value.pageSize = PageSizeRule(fres.value, nanInt)
           /\ fin.n >= 1 => fres.value.pageSize >= 1

\* C20 witness: no page size supplied, three grid columns, and a thumbnail
\* taller than the terminal: one page row of three items
C20_Witness ==
    /\ PlanResolved
    /\ fin.opts.PageSize <= 0
    /\ fin.n = 5
    /\ fres.value.gridCols = 3
    /\ ~tty.err /\ tty.rows = 3
    /\ estimateRows(fres.value.thumbCols, fres.value.thumbPx, fres.value.thumbPx,
                    cellAspectRatio(env), 0) > tty.rows
    /\ fres.value.pageSize = 3

-----------------------------------------------------------------------------
(* Properties of the page sequence of renderGrid *)

\* the positions renderGrid can pass from one to the next: the loop head,
\* the downloads, the encoder, the cursor advance, the flush
PhaseOrder ==
    { <<"start", "loop">>, <<"start", "done">>, <<"loop", "fetch">>, <<"loop", "exit">>,
      <<"fetch", "fetch">>, <<"fetch", "encode">>, <<"fetch", "loop">>,
      <<"encode", "advance">>, <<"encode", "exit">>, <<"advance", "flush">>,
      <<"flush", "loop">>, <<"exit", "done">> }

\* the items drawn on a transmitted page
ItemsOn(u) == {u.png.cells[k].img : k \in 1..Len(u.png.cells)}

\* in the output every page is its image followed by its cursor advance, and
\* the pages follow each other in item order
PagesInOrder ==
    /\ \A i \in 1..Len(Written) :
          IsImage(Written[i]) \/ Written[i] = Newline
    /\ \A i, j \in 1..Len(Written) :
          (i < j /\ IsImage(Written[i]) /\ IsImage(Written[j]))
              => /\ \A a \in ItemsOn(Written[i]), b \in ItemsOn(Written[j]) : a < b
                 /\ j >= i + 3
    /\ Len(Written) >= 1 => IsImage(Written[1])

\* one step of renderGrid with a protocol
PageStep ==
    /\ <<rpc, rpc'>> \in PhaseOrder
    \* a download starts only when everything written before is flushed
    /\ attempts' # attempts => (rpc = "fetch" /\ writer = <<>>)
    \* the encoder and the cursor advance write into the buffer only
    /\ rpc \in {"encode", "advance"} => stdout' = stdout
    \* the flush comes after the page's image and cursor advance, sends all
    \* of them, and comes before the loop head
    /\ rpc = "flush" =>
          /\ Len(writer) >= 3
          /\ IsImage(writer[1])
          /\ ItemsOn(writer[1]) \subseteq {pageLog[Len(pageLog)][k] : k \in 1..Len(pageLog[Len(pageLog)])}
          /\ \A i \in 2..Len(writer) : writer[i] = Newline
          /\ stdout' = stdout \o writer
          /\ writer' = <<>>
          /\ rpc' = "loop"

\* C21: renderGrid processes its pages strictly one after another, each in
\* the order downloads, composite, encoder, cursor advance, flush: the
\* buffer is flushed after the page's cursor advance and before any
\* download of the next page starts, and nothing of a later page is
\* written before everything of an earlier one.
C21_PagesSequential ==
    /\ []((driver = "renderGrid" /\ HasProtocol) => PagesInOrder)
    /\ [][(driver = "renderGrid" /\ HasProtocol) => PageStep]_vars

\* C21 witness: the second page is being downloaded while the first page,
\* image and cursor advance, is on standard output and the buffer is empty
C21_Witness ==
    /\ driver = "renderGrid" /\ HasProtocol
    /\ rpc = "fetch"
    /\ Len(pageLog) = 2
    /\ idx > start
    /\ writer = <<>>
    /\ Len(stdout) >= 3
    /\ IsImage(stdout[1])
    /\ ItemsOn(stdout[1]) = {1, 2}

-----------------------------------------------------------------------------
(* Properties of the protocol of one render *)

\* the kinds of everything written so far
KindsWritten == {Written[i].kind : i \in 1..Len(Written)}

\* what a render has written fits the protocol it resolved
OneEncoder ==
    /\ (attempts # <<>> \/ Written # <<>>) => protocol \in Protocols
    /\ protocol = ProtocolKitty => KindsWritten \subseteq {"kitty", "newline"}
    /\ protocol = ProtocolIterm => KindsWritten \subseteq {"iterm", "newline"}
    /\ protocol = ProtocolNone => KindsWritten \subseteq {"url"}
    /\ ~({"kitty", "iterm"} \subseteq KindsWritten)
    /\ "url" \in KindsWritten => KindsWritten = {"url"}

\* C22: within one render the protocol is resolved once, before the first
\* page, and every transmission uses the encoder of that protocol: a render
\* never emits both a Kitty and an iTerm sequence and never mixes escape
\* sequences with the URL lines.
C22_OneProtocolPerRender ==
    /\ [](driver \in {"renderGrid", "renderInline"} => OneEncoder)
    /\ [][protocol # "unset" => protocol' = protocol]_vars
    /\ [][protocol' # protocol => (rpc = "start" /\ attempts = <<>> /\ Written = <<>>)]_vars

\* C22 witness: a grid render that resolved iTerm and has sent two pages,
\* both as iTerm sequences
C22_Witness ==
    /\ driver = "renderGrid"
    /\ rpc = "done"
    /\ protocol = ProtocolIterm
    /\ Len(pageLog) >= 2
    /\ Cardinality({i \in 1..Len(stdout) : stdout[i].kind = "iterm"}) = 2

-----------------------------------------------------------------------------
(* Properties of a run of the profile command *)

\* the calls of inline.Detect() a run has made: the one of the format
\* decision and the one in the renderer's first statement
DetectCalls ==
    (IF fres.formatDetect # "not_called" THEN 1 ELSE 0) + (IF protocol # "unset" THEN 1 ELSE 0)

\* C23: in one run of the profile command the detector is called once and
\* its result handed to the renderer; the environment is not queried again
\* between the format decision and the render, and the protocol that made
\* the run choose inline output is the protocol the render uses.
C23_DetectOnce ==
    fin.fn = "Run"
        => /\ DetectCalls <= 1
           /\ (fres.formatDetect # "not_called" /\ protocol # "unset")
                  => protocol = fres.formatDetect

\* The last part of the statement alone: with an environment that does not
\* change during the run, the second call gives what the first one gave.
RenderUsesDecidingProtocol ==
    (fin.fn = "Run" /\ fres.formatDetect # "not_called" /\ protocol # "unset")
        => /\ protocol = fres.formatDetect
           /\ protocol # ProtocolNone

-----------------------------------------------------------------------------
(* Properties of the window-id rule *)

\* the override is empty or auto, and the detector has returned
NoOverrideReturn == dpc = "return" /\ env["METCLI_INLINE"] \in OverrideAuto

\* what the rules after the window-id rule give
LaterRules(e) == FirstMatch(SubSeq(RuleList(e), 5, 9))

\* The statement as first made: with the override empty or auto, every
\* non-empty value of the window-id variable, a value made only of white
\* space included, makes detectInline return Kitty.
C24_Original ==
    (NoOverrideReturn /\ env["KITTY_WINDOW_ID"] # <<>>) => detected = ProtocolKitty

\* C24: with the override empty or auto, every value of the window-id
\* variable that holds a character other than white space makes
\* detectInline return Kitty, whatever TERM_PROGRAM, ITERM_SESSION_ID and
\* TERM contain, and none of these three is read; a value made only of
\* white space counts as unset and the later rules decide.
C24_WindowIdDecides ==
    NoOverrideReturn
        => /\ IsSet(env["KITTY_WINDOW_ID"])
                 => /\ detected = ProtocolKitty
                    /\ reads = <<"METCLI_INLINE", "KITTY_WINDOW_ID">>
           /\ ~IsSet(env["KITTY_WINDOW_ID"])
                 => /\ detected = LaterRules(env)
                    /\ Len(reads) >= 3

\* C24 witness: a window id with surrounding white space decides for Kitty
\* although TERM_PROGRAM names iTerm
C24_Witness ==
    /\ NoOverrideReturn
    /\ env["KITTY_WINDOW_ID"] = <<" ","7"," ">>
    /\ Has(env["TERM_PROGRAM"], L_iterm)
    /\ detected = ProtocolKitty

-----------------------------------------------------------------------------
(* Properties of the row estimate *)

\* a page has been composited and sized, and is being transmitted
PageSized == driver = "renderGrid" /\ rpc \in {"encode", "advance", "flush"}

\* C25: estimateRows returns 0 exactly when colsCells <= 0 or widthPx <= 0
\* or heightPx <= 0 and otherwise a value >= 1 for every cell aspect in
\* [0.1, 2.0]; consequently every transmitted page has rowsCells >= 1.
C25_RowsAtLeastOne ==
    PageSized
        => /\ page.colsCells > 0 /\ page.width > 0 /\ page.height > 0
           /\ page.rowsCells >= 1

\* The first part of the statement, on estimateRows called on its own: 0
\* exactly for a non-positive dimension, else at least 1 when the cell
\* aspect lies in [0.1, 2.0]; cols = 1, width = 1000, height = 10 gives 1.
EstimateRowsZeroOrPositive ==
    (fpc = "return" /\ fin.fn = "estimateRows" /\ InAspectRange(fin.cellAspect))
        => /\ fres.value = 0
                 <=> (fin.colsCells <= 0 \/ fin.widthPx <= 0 \/ fin.heightPx <= 0)
           /\ fres.value >= 0
           /\ (fin.colsCells = 1 /\ fin.widthPx = 1000 /\ fin.heightPx = 10) => fres.value = 1

\* The consequence for the pages, when the cell aspect is not a NaN.
PageRowsAtLeastOneUnlessNaN ==
    (PageSized /\ ~IsNaN(cellAspectRatio(env))) => page.rowsCells >= 1

-----------------------------------------------------------------------------
(* Properties of FetchUserMedia *)

\* FetchUserMedia is running or has returned
Fetching == fin.fn = "FetchUserMedia"

\* after the page just fetched one of the stop conditions holds, the page
\* cap left aside: the request failed, max items are collected, the server
\* reports no more pages, the next cursor is empty, or the next cursor is
\* the cursor just used
StopsAfterPage ==
    \/ feedPage'.err
    \/ (fetch.max > 0 /\ Len(fetch'.out) >= fetch.max)
    \/ ~feedPage'.moreAvailable
    \/ feedPage'.nextMaxID = ""
    \/ feedPage'.nextMaxID = fetch.maxID

\* one iteration of the page loop
FetchStep ==
    /\ fetch'.pageCount = fetch.pageCount + 1
    /\ feedPage'.called /\ feedPage'.maxID = fetch.maxID
    /\ fpc' = "return" <=> (StopsAfterPage \/ fetch'.pageCount = 201)
    /\ fpc' # "return" => (fpc' = "loop" /\ fetch'.maxID = feedPage'.nextMaxID)

\* C26: FetchUserMedia terminates for every sequence of server responses:
\* the page loop issues at most 201 page requests, every iteration issues
\* one, and the loop stops as soon as a request fails, max items are
\* collected, the server reports no more pages, the next cursor is empty or
\* the next cursor equals the cursor just used; cursors that cycle with a
\* period of two or more are stopped by the page cap only.
C26_FetchTerminates ==
    /\ [](Fetching => /\ fetch.pageCount <= 201
                      /\ fpc = "loop" => fetch.pageCount <= 200
                      /\ fpc = "call" => fetch.pageCount = 0)
    /\ [][(Fetching /\ fpc = "loop") => FetchStep]_vars
    /\ [][(Fetching /\ fpc = "call") => fpc' \in {"loop", "return"} /\ ~feedPage'.called]_vars
    /\ [][(Fetching /\ fpc = "return") => UNCHANGED vars]_vars

\* C26 witness: the server's cursors alternate between A and B; the loop
\* has returned after its 201st request, stopped by nothing but the cap
C26_Witness ==
    /\ Fetching
    /\ fpc = "return"
    /\ fetch.pageCount = 201
    /\ ~feedPage.err /\ feedPage.moreAvailable
    /\ feedPage.maxID = "B" /\ feedPage.nextMaxID = "A"
    /\ ~(fetch.max > 0 /\ Len(fetch.out) >= fetch.max)


\* the URLs of a list of items
URLsOf(its) == {its[i].URL : i \in 1..Len(its)}

RECURSIVE PickFrom(_, _, _)
\* the items of its at the positions in S, from position i on, in order
PickFrom(its, S, i) ==
    IF i > Len(its) THEN <<>>
    ELSE (IF i \in S THEN <<its[i]>> ELSE <<>>) \o PickFrom(its, S, i + 1)

\* the items of its that bring a URL not yet in have: non-empty, and the
\* first of its URL in its
FirstOccurrences(its, have) ==
    PickFrom(its,
             {i \in 1..Len(its) :
                 /\ its[i].URL # ""
                 /\ its[i].URL \notin URLsOf(have)
                 /\ \A j \in 1..(i - 1) : its[j].URL # its[i].URL},
             1)

\* a list without empty URL and without a URL twice
CleanList(its) ==
    /\ \A i \in 1..Len(its) : its[i].URL # ""
    /\ \A i, j \in 1..Len(its) : i # j => its[i].URL # its[j].URL

\* what FetchUserMedia has returned
ReturnedList ==
    /\ CleanList(fres.value)
    /\ fin.max > 0 => Len(fres.value) <= fin.max
    \* the list is what has been collected, cut at max
    /\ \E n \in 0..Len(fetch.out) : fres.value = SubSeq(fetch.out, 1, n)
    /\ ~(fin.max > 0 /\ Len(fetch.out) >= fin.max) => fres.value = fetch.out
    \* an error is returned exactly when the last request failed
    /\ fres.err <=> (feedPage.called /\ feedPage.err)

\* C27: in every return of FetchUserMedia, with an error or without, the
\* returned list has no empty URL and no URL twice, keeps the items in the
\* order of their first occurrence (the profile's media first, then the
\* feed pages in fetch order) and is no longer than max when max > 0; when
\* a page request fails, the items collected before it are returned
\* together with the error.
C27_FetchResult ==
    /\ []((Fetching /\ fpc = "return") => ReturnedList)
    /\ []((Fetching /\ fpc # "call") => CleanList(fetch.out))
    /\ [][(Fetching /\ fpc = "call")
             => fetch'.out = FirstOccurrences(fin.media, <<>>)]_vars
    /\ [][(Fetching /\ fpc = "loop")
             => /\ fetch'.out = fetch.out \o FirstOccurrences(feedPage'.items, fetch.out)
                /\ feedPage'.err => (fpc' = "return" /\ fres'.err /\ fres'.value = fetch.out)]_vars

\* C27 witness: the second page request fails after the profile's media and
\* the first page gave three items; they are returned with the error, the
\* profile's first
C27_Witness ==
    /\ Fetching
    /\ fpc = "return"
    /\ fres.err
    /\ fetch.pageCount = 2
    /\ fres.value = <<MediaItem("u2", "m1"), MediaItem("u1", "m4"), MediaItem("u3", "f2")>>

====
